---- MODULE Spec2Model ----
(***************************************************************************)
(* State-machine model of sdlc_agents: the build-monitor retry budget      *)
(* (agents/build_monitor_agent.py), the Agent.think protocol               *)
(* (agents/base.py over memory/clickhouse_memory.py) and the orchestrator  *)
(* task router (agents/orchestrator.py).                                   *)
(*                                                                         *)
(* Python values are rendered as follows: a dict result is a record with   *)
(* the same keys; None is the string "None"; an f-string is the sequence   *)
(* of its literal fragments and formatted values; an exception leaving a   *)
(* coroutine is the record [raised |-> <exception>].                       *)
(***************************************************************************)
EXTENDS Integers, Sequences, FiniteSets, TLC

(***************************************************************************)
(* Bounds of the model (not program constants).                            *)
(***************************************************************************)
\* build ids known to the model: 1..MaxBuilds
MaxBuilds == 4
\* settings.max_retries ranges over 0..MaxRetriesSetting
MaxRetriesSetting == 2
\* number of monitor_pr_build tasks (each allocates one tracking dict)
MaxMonitors == 2
\* entries the agent_memory table holds at most
MaxMemories == 8
\* entries one agent session stores with one and the same timestamp (DateTime64(3): one millisecond)
MaxSameStamp == 3
\* the clock runs from 0 to MaxClock hours
MaxClock == 24
\* entries each other writer stores
MaxForeign == 1
\* Agent.think calls per behaviour
MaxThinks == 1
\* OrchestratorAgent.process_task calls per behaviour
MaxTasks == 2
\* agent instances that may be registered under one agent id
MaxInstances == 1
\* agent instances that may be registered under one agent id when only the
\* registry is studied
MaxRegistered == 3
\* rows a table holds at most when the store's queries are studied
MaxStoredRows == 3
\* rows the three tables hold together when the whole store is studied
MaxEventStoreRows == 4
MaxRaceTasks == 3

(***************************************************************************)
(* Program constants.                                                      *)
(***************************************************************************)
\* think: get_recent_memories(limit=10, hours=24), recent_memories[:5], content[:200]
ThinkRecentLimit == 10
ThinkRecentHours == 24
ThinkContextEntries == 5
PreviewLen == 200

VARIABLES
    \* ---- BuildMonitorAgent and its work-tracking client ----
    max_retries,        \* settings.max_retries (config.py), fixed at start-up
    monitored_builds,   \* self.monitored_builds: build id -> reference of a tracking dict (0: no key)
    build_info,         \* the tracking dicts, by reference (a retried build shares its original's dict)
    ado_builds,         \* build ids that exist in Azure DevOps
    retry_of,           \* history: the build a queued build retries (0: not queued by a retry)
    mon_pc,             \* position of the in-flight monitor_pr_build task
    mon_build,          \* build id of the in-flight monitor_pr_build task
    bm_return,          \* what the last finished build-monitor task returned or raised
    bm_queued,          \* history: build id queued by the last finished task (0: none)
    bm_writes,          \* history: memory types written to the Event Store by the last task
    mon_seen,           \* history: what the monitor_pr_build task saw (build found, its result, the analysis's classification)
    streak,             \* history: consecutive retry_build tasks naming one build since its count was 0
    \* ---- Event Store (ClickHouseMemory) ----
    store_up,           \* whether ClickHouse answers requests (a request raises while it is down)
    now,                \* the clock, in hours
    memory,             \* table agent_memory, in insertion order
    actions,            \* table agent_actions, in insertion order
    \* ---- one Agent.think call ----
    th_pc,              \* position in think: idle, llm, store, log, except, returned, raised
    th_calls,           \* think calls made so far
    th_msg,             \* user_message
    th_ctx,             \* context
    th_start,           \* start_time
    th_recent,          \* recent_memories
    th_messages,        \* messages passed to llm.generate
    th_response,        \* response of llm.generate
    th_error,           \* the exception being handled or raised
    th_mark,            \* history: sizes of the two tables when the call started
    th_events,          \* history: the call's effects in the order they happened
    \* ---- OrchestratorAgent ----
    active_agents,      \* self.active_agents: agent id -> registered instance (0: no key)
    o_pc,               \* position in process_task
    o_tasks,            \* process_task calls made so far
    o_task,             \* task
    o_found,            \* whether get_work_item returned a work item
    o_req_result,       \* req_result
    o_repos,            \* the repositories the delegation loop has still to visit
    o_code_results,     \* code_results
    o_error,            \* the exception caught by process_task
    o_return,           \* what process_task returned or raised
    o_calls,            \* history: the collaborators this call has used and what they raised, in order
    o_mark,             \* history: size of agent_memory and the registry when the call started
    reg_history,        \* history: per agent id, the instances registered so far and the last one
    \* ---- callers of the Event Store's queries ----
    q_calls,            \* history: the calls answered since the last write (of a query: the last two), with their answers
    work_items,         \* table work_items, in insertion order
    cr_pc,              \* where the code repository agent's process_task stands
    cr_tasks,           \* process_task calls started on the code repository agent
    cr_task,            \* the task being processed
    cr_repo,            \* self.repo: None until a repository object is assigned
    cr_branch,          \* local branch_name of _implement_changes
    cr_response,        \* local response: what think returned
    cr_procs,           \* the mvn subprocesses started so far and what became of them
    cr_elapsed,         \* time waited in asyncio.wait_for since the subprocess was started
    cr_build,           \* what the last _run_maven_build returned
    cr_return,          \* what process_task returned or raised
    cr_calls,           \* history: collaborator calls of the current process_task, in order
    cr_writes,          \* history: memory types written by the current process_task
    rt_pc,              \* where each concurrently scheduled retry_build task stands
    rt_build,           \* the build id the concurrently scheduled tasks name
    rt_info,            \* history: the tracking dicts as they were when the tasks were scheduled
    rt_results          \* what each concurrently scheduled task returned

bmvars == <<max_retries, monitored_builds, build_info, ado_builds, retry_of,
            mon_pc, mon_build, bm_return, bm_queued, bm_writes, mon_seen, streak>>

storevars == <<store_up, now, memory, actions>>

thvars == <<th_pc, th_calls, th_msg, th_ctx, th_start, th_recent, th_messages,
            th_response, th_error, th_mark, th_events>>

orchvars == <<active_agents, o_pc, o_tasks, o_task, o_found, o_req_result, o_repos,
              o_code_results, o_error, o_return, o_calls, o_mark, reg_history>>

crvars == <<cr_pc, cr_tasks, cr_task, cr_repo, cr_branch, cr_response, cr_procs, cr_elapsed,
            cr_build, cr_return, cr_calls, cr_writes>>

rtvars == <<rt_pc, rt_build, rt_info, rt_results>>

vars == <<bmvars, storevars, thvars, orchvars, q_calls, work_items, rtvars, crvars>>

BuildIds == 1..MaxBuilds
RaceTasks == 1..MaxRaceTasks
None == "None"
NoResult == [pending |-> TRUE]
NoStreak == [id |-> 0, n |-> 0]

Has(r, f) == f \in DOMAIN r

Min(a, b) == IF a <= b THEN a ELSE b

\* "\n".join(lines), a text being the sequence of its fragments
RECURSIVE JoinLines(_)
JoinLines(lines) ==
    IF lines = <<>> THEN <<>>
    ELSE IF Len(lines) = 1 THEN lines[1]
    ELSE lines[1] \o <<"\n">> \o JoinLines(Tail(lines))

\* text[:200]
Preview(text) == SubSeq(text, 1, Min(Len(text), PreviewLen))

\* an empty dict
EmptyDict == <<>>

(***************************************************************************)
(* Event Store: memory/clickhouse_memory.py                                *)
(***************************************************************************)

\* a ClickHouse request answers (TRUE) or raises (FALSE)
StoreOutcomes == {store_up}

StorageError == "StorageError"

\* store_memory: one row appended to agent_memory
\* (first: a variant that keeps only the newest entry of each memory type)
store_memory_replacing(entry) ==
    Append(SelectSeq(memory, LAMBDA e : e.memory_type # entry.memory_type), entry)
store_memory(entry) == Append(memory, entry)

\* log_action: one row appended to agent_actions, stamped datetime.now()
log_action(agent_id, action_type, target, parameters, result, success, duration_ms, session_id) ==
    Append(actions, [agent_id |-> agent_id, timestamp |-> now, action_type |-> action_type,
                     target |-> target, parameters |-> parameters, result |-> result,
                     success |-> success, duration_ms |-> duration_ms,
                     session_id |-> session_id])

\* rows of agent_memory matching the WHERE clause of get_recent_memories
\* (memory_type / session_id None: the filter is not added)
\* (first: a variant without the session filter)
RecentRowsAnySession(agent_id, memory_type, session_id, hours) ==
    {i \in 1..Len(memory) :
        /\ memory[i].agent_id = agent_id
        /\ memory[i].timestamp > now - hours
        /\ (memory_type # None => memory[i].memory_type = memory_type)}
RecentRows(agent_id, memory_type, session_id, hours) ==
    {i \in 1..Len(memory) :
        /\ memory[i].agent_id = agent_id
        /\ memory[i].timestamp > now - hours
        /\ (memory_type # None => memory[i].memory_type = memory_type)
        /\ (session_id # None => memory[i].session_id = session_id)}

\* ORDER BY timestamp DESC LIMIT k over the rows S: every order ClickHouse may
\* answer with (rows of equal timestamp come in any order)
RECURSIVE NewestFirst(_, _)
NewestFirst(S, k) ==
    IF k = 0 \/ S = {} THEN {<<>>}
    ELSE UNION {{<<memory[i]>> \o rest : rest \in NewestFirst(S \ {i}, k - 1)} :
                i \in {j \in S : \A o \in S : memory[o].timestamp <= memory[j].timestamp}}

\* get_recent_memories: the possible results
get_recent_memories(agent_id, limit, memory_type, session_id, hours) ==
    NewestFirst(RecentRows(agent_id, memory_type, session_id, hours), limit)

(***************************************************************************)
(* Agent: agents/base.py                                                   *)
(***************************************************************************)

\* the agent under study and the other writers to the store: another agent,
\* and an earlier instance of the same agent (another session_id)
self_agent_id == "orchestrator"
self_session_id == "session-1"
system_prompt == <<"You are the Orchestrator Agent">>
OtherWriters == {[agent_id |-> "build_monitor", session_id |-> "session-2"],
                 [agent_id |-> "orchestrator", session_id |-> "session-0"]}

\* room in the table for one more row
CanStore == Len(memory) < MaxMemories

\* this agent may still write a row with the current timestamp
CanStamp ==
    /\ CanStore
    /\ Cardinality({i \in 1..Len(memory) : /\ memory[i].timestamp = now
                                           /\ memory[i].agent_id = self_agent_id
                                           /\ memory[i].session_id = self_session_id})
         < MaxSameStamp

\* Agent._store_memory: the MemoryEntry handed to store_memory
\* (first: a variant that leaves the session out)
MemoryEntryWithoutSession(memory_type, content, metadata) ==
    [agent_id |-> self_agent_id, timestamp |-> now, memory_type |-> memory_type,
     content |-> content, metadata |-> metadata, session_id |-> None]
MemoryEntry(memory_type, content, metadata) ==
    [agent_id |-> self_agent_id, timestamp |-> now, memory_type |-> memory_type,
     content |-> content, metadata |-> metadata, session_id |-> self_session_id]

\* Agent._log_action for a think call (first: a variant that logs every call as a success)
ThinkLogRecordAsSuccess(result, success) ==
    log_action(self_agent_id, "think", "llm", [message |-> Preview(th_msg)], result,
               TRUE, (now - th_start) * 3600000, self_session_id)
ThinkLogRecord(result, success) ==
    log_action(self_agent_id, "think", "llm", [message |-> Preview(th_msg)], result,
               success, (now - th_start) * 3600000, self_session_id)

LLMMessage(role, content) == [role |-> role, content |-> content]

\* think: the memory_context message over recent_memories[:5]
MemoryContext(recent) ==
    <<"Recent context:\n">> \o
    JoinLines([i \in 1..Min(Len(recent), ThinkContextEntries) |->
                  <<"- ">> \o Preview(recent[i].content)])

\* think: the context message, one "k: v" line per item of the dict
ContextMessage(ctx) ==
    <<"Context:\n">> \o JoinLines([i \in 1..Len(ctx) |-> <<ctx[i][1], ": ", ctx[i][2]>>])

\* think: the message history built before the LLM call
BuildMessages(recent, ctx, msg) ==
    <<LLMMessage("system", system_prompt)>>
    \o (IF recent # <<>> THEN <<LLMMessage("system", MemoryContext(recent))>> ELSE <<>>)
    \o (IF ctx # <<>> THEN <<LLMMessage("system", ContextMessage(ctx))>> ELSE <<>>)
    \o <<LLMMessage("user", msg)>>

\* what llm.generate may answer: a response, or one of the provider's errors
Responses == {[content |-> <<"1. change api">>, model |-> "llama3", tokens_used |-> 42]}
LLMErrors == {"ConnectError", "HTTPStatusError"}
NoResponse == [content |-> <<>>, model |-> None, tokens_used |-> 0]

\* history: one effect of a think call, with the exception it raised (None: none)
Event(name, error) == [event |-> name, error |-> error]

\* think, from the call to `await self.llm.generate(...)`: the recent-memory read
\* (outside the try block) and the message history
ThinkBegin(msg, ctx) ==
    /\ th_calls' = th_calls + 1
    /\ th_msg' = msg
    /\ th_ctx' = ctx
    /\ th_start' = now
    /\ th_mark' = [mem |-> Len(memory), act |-> Len(actions)]
    /\ th_response' = NoResponse
    /\ \E ok \in StoreOutcomes :
        IF ok THEN
            \E recent \in get_recent_memories(self_agent_id, ThinkRecentLimit, None,
                                              self_session_id, ThinkRecentHours) :
                /\ th_recent' = recent
                /\ th_messages' = BuildMessages(recent, ctx, msg)
                /\ th_error' = None
                /\ th_events' = <<Event("read", None)>>
                /\ th_pc' = "llm"
        ELSE
            /\ th_recent' = <<>>
            /\ th_messages' = <<LLMMessage("system", system_prompt)>>
            /\ th_error' = StorageError
            /\ th_events' = <<Event("read_raised", StorageError)>>
            /\ th_pc' = "raised"
    /\ UNCHANGED storevars

\* `response = await self.llm.generate(messages, temperature=temperature)`
ThinkGenerateStep ==
    /\ th_pc = "llm"
    /\ \/ \E r \in Responses :
            /\ th_response' = r
            /\ th_events' = Append(th_events, Event("generate_returned", None))
            /\ th_pc' = "store"
            /\ UNCHANGED th_error
       \/ \E e \in LLMErrors :
            /\ th_error' = e
            /\ th_events' = Append(th_events, Event("generate_raised", e))
            /\ th_pc' = "except"
            /\ UNCHANGED th_response
    /\ UNCHANGED <<storevars, th_calls, th_msg, th_ctx, th_start, th_recent, th_messages,
                   th_mark, bmvars, q_calls, work_items, rtvars, crvars, orchvars>>

\* the conversation entry: f"User: {user_message}\nAssistant: {response.content}"
\* (first: a variant that stores the user's half only)
ConversationEntryUserOnly ==
    MemoryEntry("conversation", <<"User: ">> \o th_msg,
                [tokens |-> th_response.tokens_used, model |-> th_response.model])
ConversationEntry ==
    MemoryEntry("conversation",
                <<"User: ">> \o th_msg \o <<"\nAssistant: ">> \o th_response.content,
                [tokens |-> th_response.tokens_used, model |-> th_response.model])

\* `self._store_memory(memory_type="conversation", ...)` inside the try block
ThinkStoreStep ==
    /\ th_pc = "store"
    /\ \E ok \in StoreOutcomes :
        IF ok THEN
            /\ CanStamp
            /\ memory' = store_memory(ConversationEntry)
            /\ th_events' = Append(th_events, Event("conversation_stored", None))
            /\ th_pc' = "log"
            /\ UNCHANGED th_error
        ELSE
            /\ th_error' = StorageError
            /\ th_events' = Append(th_events, Event("store_raised", StorageError))
            /\ th_pc' = "except"
            /\ UNCHANGED memory
    /\ UNCHANGED <<store_up, now, actions, th_calls, th_msg, th_ctx, th_start,
                   th_recent, th_messages, th_response, th_mark, bmvars, q_calls, work_items, rtvars, crvars, orchvars>>

\* `self._log_action(..., success=True, ...)` inside the try block, then `return response`
ThinkLogStep ==
    /\ th_pc = "log"
    /\ \E ok \in StoreOutcomes :
        IF ok THEN
            /\ actions' = ThinkLogRecord([content |-> Preview(th_response.content)], TRUE)
            /\ th_events' = Append(th_events, Event("logged_success", None))
            /\ th_pc' = "returned"
            /\ UNCHANGED th_error
        ELSE
            /\ th_error' = StorageError
            /\ th_events' = Append(th_events, Event("log_raised", StorageError))
            /\ th_pc' = "except"
            /\ UNCHANGED actions
    /\ UNCHANGED <<store_up, now, memory, th_calls, th_msg, th_ctx, th_start,
                   th_recent, th_messages, th_response, th_mark, bmvars, q_calls, work_items, rtvars, crvars, orchvars>>

\* `except Exception as e:` - log the failed action, then `raise`; an exception
\* of the log write itself replaces e
ThinkExceptStep ==
    /\ th_pc = "except"
    /\ \E ok \in StoreOutcomes :
        IF ok THEN
            /\ actions' = ThinkLogRecord([error |-> th_error], FALSE)
            /\ th_events' = Append(th_events, Event("logged_failure", None))
            /\ UNCHANGED th_error
        ELSE
            /\ th_error' = StorageError
            /\ th_events' = Append(th_events, Event("failure_log_raised", StorageError))
            /\ UNCHANGED actions
    /\ th_pc' = "raised"
    /\ UNCHANGED <<store_up, now, memory, th_calls, th_msg, th_ctx, th_start,
                   th_recent, th_messages, th_response, th_mark, bmvars, q_calls, work_items, rtvars, crvars, orchvars>>

ThinkDone == th_pc = "idle"

\* observe / decide / record_action / record_result: one _store_memory call
\* with the caller's text; a failed write raises and stores nothing
Remember(memory_type, content, ok) ==
    memory' = IF ok THEN store_memory(MemoryEntry(memory_type, content, EmptyDict))
              ELSE memory

(***************************************************************************)
(* BuildMonitorAgent                                                       *)
(***************************************************************************)

\* _monitor_pr_build: the dict stored for a newly tracked build
\* (first: a variant that starts the count at 1)
NewBuildInfoCounted(pr_id) == [pr_id |-> pr_id, status |-> "inProgress", retry_count |-> 1]
NewBuildInfo(pr_id) == [pr_id |-> pr_id, status |-> "inProgress", retry_count |-> 0]

\* _retry_build: `build_info["retry_count"] >= settings.max_retries`
\* (first: a variant that allows one retry more)
RetryBudgetExhaustedOffByOne(info) == info.retry_count > max_retries
RetryBudgetExhausted(info) == info.retry_count >= max_retries

\* ADOClient.get_build: the build's projection, or None when the build does not
\* exist or the request fails (the client catches every exception).
GetBuildOutcomes(b) == IF b \in ado_builds THEN {TRUE, FALSE} ELSE {FALSE}

\* ADOClient.queue_build: a new build id, or 0 for None (definition missing,
\* request failed).  Azure DevOps numbers builds in increasing order.
FreshBuildId == IF ado_builds = {} THEN 1
                ELSE (CHOOSE m \in ado_builds : \A o \in ado_builds : o <= m) + 1
QueueBuildOutcomes == {0} \cup (IF FreshBuildId \in BuildIds THEN {FreshBuildId} ELSE {})

\* `build_info = self.monitored_builds[build_id]`: the dict the check reads, as
\* it is when the task runs (first: a variant that checks the dict as it was
\* when the concurrent tasks were scheduled, as a read taken before a
\* suspension point would be)
TrackedInfoAsScheduled(b) ==
    IF rt_info # <<>> /\ monitored_builds[b] \in DOMAIN rt_info
    THEN rt_info[monitored_builds[b]] ELSE build_info[monitored_builds[b]]
TrackedInfo(b) == build_info[monitored_builds[b]]

\* _retry_build returning early: nothing of the agent's state is assigned
\* (first: a variant in which the attempt is counted all the same)
RejectingCounted(b) ==
    [mb |-> monitored_builds,
     info |-> IF monitored_builds[b] = 0 THEN build_info
              ELSE [build_info EXCEPT ![monitored_builds[b]].retry_count = @ + 1],
     ado |-> ado_builds, parent |-> retry_of, queued |-> 0]
Rejecting(b) ==
    [mb |-> monitored_builds, info |-> build_info, ado |-> ado_builds,
     parent |-> retry_of, queued |-> 0]

\* _retry_build(task) as a function of the collaborators' outcomes: the new
\* values of the agent's state, the result, and the memory entries written.
RetryBuild(b, found, new_id) ==
    LET same == Rejecting(b) IN
    IF monitored_builds[b] = 0 THEN
        same @@ [result |-> [success |-> FALSE, error |-> <<"Build not being monitored">>],
                 writes |-> <<>>]
    ELSE IF RetryBudgetExhausted(TrackedInfo(b)) THEN
        same @@ [result |-> [success |-> FALSE, error |-> <<"Max retries exceeded">>,
                             action_needed |-> "manual_intervention"],
                 writes |-> <<"decision">>]
    ELSE IF ~found THEN
        same @@ [result |-> [success |-> FALSE, error |-> <<"Original build not found">>],
                 writes |-> <<>>]
    ELSE IF new_id = 0 THEN
        same @@ [result |-> [success |-> FALSE, error |-> <<"Failed to queue retry build">>],
                 writes |-> <<>>]
    ELSE
        LET ref == monitored_builds[b]
            count == build_info[ref].retry_count + 1
        IN [mb |-> [monitored_builds EXCEPT ![new_id] = ref],
            info |-> [build_info EXCEPT ![ref].retry_count = count],
            ado |-> ado_builds \cup {new_id},
            parent |-> [retry_of EXCEPT ![new_id] = b],
            queued |-> new_id,
            result |-> [success |-> TRUE, original_build_id |-> b,
                        new_build_id |-> new_id, retry_count |-> count],
            writes |-> <<"action">>]

ApplyRetry(r) ==
    /\ monitored_builds' = r.mb
    /\ build_info' = r.info
    /\ ado_builds' = r.ado
    /\ retry_of' = r.parent
    /\ bm_queued' = r.queued
    /\ bm_return' = r.result

\* history: how far the run of consecutive retry_build tasks on build b has got
\* once this task has run (the collaborators answered `found`, `new_id`).
NextStreak(b, found, new_id) ==
    LET ado_ok == found /\ new_id # 0
        fresh == /\ monitored_builds[b] # 0
                 /\ build_info[monitored_builds[b]].retry_count = 0
        n == IF streak.id = b /\ streak.n >= 1 THEN streak.n
             ELSE IF fresh THEN 0 ELSE -1
    IN IF n < 0 THEN NoStreak
       ELSE IF n >= max_retries THEN [id |-> b, n |-> max_retries + 1]
       ELSE IF ado_ok THEN [id |-> b, n |-> n + 1]
       ELSE NoStreak

\* process_task({"type": "retry_build", "build_id": b}); no suspension point
\* between the budget check and the counter update.  Tasks are awaited one at a
\* time: a task starts when no monitor_pr_build task is suspended.
RetryBuildTask(b) ==
    /\ mon_pc = "idle"
    /\ \E found \in GetBuildOutcomes(b), new_id \in QueueBuildOutcomes :
         LET r == RetryBuild(b, found, new_id) IN
         /\ ApplyRetry(r)
         /\ bm_writes' = r.writes
         /\ streak' = NextStreak(b, found, new_id)
         /\ mon_seen' = NoResult
         /\ UNCHANGED <<storevars, thvars, orchvars, q_calls, work_items, rtvars, crvars, max_retries, mon_pc, mon_build>>

\* history: what a monitor_pr_build task has seen so far
Seen(found, result) == [found |-> found, result |-> result, intermittent |-> None]

\* process_task({"type": "monitor_pr_build", ...}) up to `await asyncio.sleep(1)`
MonitorStart(b) ==
    /\ mon_pc = "idle"
    /\ Len(build_info) < MaxMonitors
    /\ build_info' = Append(build_info, NewBuildInfo(1))
    /\ monitored_builds' = [monitored_builds EXCEPT ![b] = Len(build_info) + 1]
    /\ mon_pc' = "sleeping"
    /\ mon_build' = b
    /\ bm_writes' = <<"observation">>
    /\ bm_return' = NoResult
    /\ bm_queued' = 0
    /\ mon_seen' = NoResult
    /\ streak' = NoStreak
    /\ UNCHANGED <<storevars, thvars, orchvars, q_calls, work_items, rtvars, crvars, max_retries, ado_builds, retry_of>>

\* after the sleep: get_build, and for a failed build the start of
\* _analyze_build_failure up to `await self.think(...)`
MonitorCheck ==
    /\ mon_pc = "sleeping"
    /\ \E found \in GetBuildOutcomes(mon_build), result \in {"succeeded", "failed"},
          found2 \in GetBuildOutcomes(mon_build) :
        /\ mon_seen' = Seen(found, IF found THEN result ELSE None)
        /\ IF ~found THEN
               /\ bm_return' = [success |-> FALSE,
                                error |-> <<"Build ", ToString(mon_build), " not found">>]
               /\ mon_pc' = "idle"
               /\ UNCHANGED bm_writes
           ELSE IF result # "failed" THEN
               /\ bm_return' = [success |-> TRUE, build_id |-> mon_build, result |-> result]
               /\ mon_pc' = "idle"
               /\ UNCHANGED bm_writes
           ELSE IF ~found2 THEN
               \* the analysis is {"success": False, "error": "Build not found"}:
               \* analysis.get("is_intermittent") is None
               /\ bm_return' = [success |-> FALSE, build_id |-> mon_build,
                                analysis |-> [success |-> FALSE, error |-> <<"Build not found">>],
                                action_needed |-> "code_fix"]
               /\ mon_pc' = "idle"
               /\ UNCHANGED bm_writes
           ELSE
               /\ bm_writes' = Append(bm_writes, "observation")
               /\ mon_pc' = "thinking"
               /\ UNCHANGED bm_return
    /\ streak' = NoStreak
    /\ UNCHANGED <<max_retries, monitored_builds, build_info, ado_builds, retry_of,
                   mon_build, bm_queued, storevars, thvars, orchvars, q_calls, work_items, rtvars, crvars>>

\* the LLM answered (or raised) inside _analyze_build_failure; the rest of
\* _monitor_pr_build follows without suspension.
MonitorAnalyzed ==
    /\ mon_pc = "thinking"
    /\ mon_pc' = "idle"
    /\ streak' = NoStreak
    /\ \E llm_ok \in BOOLEAN, is_intermittent \in BOOLEAN,
          found \in GetBuildOutcomes(mon_build), new_id \in QueueBuildOutcomes :
        IF ~llm_ok THEN
            \* think logs the failed action and re-raises; nothing catches it
            /\ bm_return' = [raised |-> "LLMError"]
            /\ UNCHANGED <<bm_writes, bm_queued, monitored_builds, build_info,
                           ado_builds, retry_of, mon_seen>>
        ELSE IF ~is_intermittent THEN
            /\ bm_return' = [success |-> FALSE, build_id |-> mon_build,
                             analysis |-> [success |-> TRUE, build_id |-> mon_build,
                                           is_intermittent |-> FALSE],
                             action_needed |-> "code_fix"]
            /\ bm_writes' = bm_writes \o <<"conversation", "result">>
            /\ mon_seen' = [mon_seen EXCEPT !.intermittent = "False"]
            /\ UNCHANGED <<bm_queued, monitored_builds, build_info, ado_builds, retry_of>>
        ELSE
            LET r == RetryBuild(mon_build, found, new_id) IN
            /\ ApplyRetry(r)
            /\ bm_writes' = bm_writes \o <<"conversation", "result">> \o r.writes
            /\ mon_seen' = [mon_seen EXCEPT !.intermittent = "True"]
    /\ UNCHANGED <<storevars, thvars, orchvars, q_calls, work_items, rtvars, crvars, max_retries, mon_build>>

\* asyncio.gather of MaxRaceTasks process_task({"type": "retry_build",
\* "build_id": b}) calls on the one agent: the tasks are scheduled, none has run
GatherRetries(b) ==
    /\ mon_pc = "idle"
    /\ rt_build = 0
    /\ rt_pc' = [t \in RaceTasks |-> "scheduled"]
    /\ rt_build' = b
    /\ rt_info' = build_info
    /\ rt_results' = [t \in RaceTasks |-> NoResult]
    /\ UNCHANGED <<bmvars, storevars, thvars, orchvars, q_calls, work_items, crvars>>

\* the event loop runs a scheduled task: _retry_build from its start to its
\* first await (`await self.decide(...)` when the budget is exhausted,
\* `await self.record_action(...)` after the counter update) or to its return
RetryRuns(t) ==
    /\ rt_pc[t] = "scheduled"
    /\ \E found \in GetBuildOutcomes(rt_build), new_id \in QueueBuildOutcomes :
         LET r == RetryBuild(rt_build, found, new_id) IN
         /\ ApplyRetry(r)
         /\ bm_writes' = r.writes
         /\ rt_results' = [rt_results EXCEPT ![t] = r.result]
         /\ rt_pc' = [rt_pc EXCEPT ![t] = IF r.writes = <<>> THEN "done" ELSE "awaiting"]
    /\ streak' = NoStreak
    /\ mon_seen' = NoResult
    /\ UNCHANGED <<storevars, thvars, orchvars, q_calls, work_items, crvars, max_retries,
                   mon_pc, mon_build, rt_build, rt_info>>

\* the Event Store write a task awaited is done: the task returns its result
RetryResumes(t) ==
    /\ rt_pc[t] = "awaiting"
    /\ rt_pc' = [rt_pc EXCEPT ![t] = "done"]
    /\ UNCHANGED <<bmvars, storevars, thvars, orchvars, q_calls, work_items, crvars,
                   rt_build, rt_info, rt_results>>

(***************************************************************************)
(* The environment of an agent: the clock, other writers to the store, and *)
(* callers of the agent's own primitives                                   *)
(***************************************************************************)

ClockSteps == {12}

AdvanceClock ==
    /\ \E d \in ClockSteps : now + d <= MaxClock /\ now' = now + d
    /\ UNCHANGED <<store_up, memory, actions, thvars, bmvars, q_calls, work_items, rtvars, crvars, orchvars>>

\* ClickHouse becomes unreachable, and reachable again
StoreFails ==
    /\ store_up
    /\ store_up' = FALSE
    /\ UNCHANGED <<now, memory, actions, thvars, bmvars, q_calls, work_items, rtvars, crvars, orchvars>>

StoreRecovers ==
    /\ ~store_up
    /\ store_up' = TRUE
    /\ UNCHANGED <<now, memory, actions, thvars, bmvars, q_calls, work_items, rtvars, crvars, orchvars>>

\* another agent instance stores a memory entry (Agent._store_memory of that instance)
ForeignWrite(w) ==
    /\ th_pc \in {"idle", "llm"}
    /\ store_up
    /\ CanStore
    /\ Cardinality({i \in 1..Len(memory) : /\ memory[i].agent_id = w.agent_id
                                           /\ memory[i].session_id = w.session_id})
         < MaxForeign
    /\ memory' = store_memory([agent_id |-> w.agent_id, timestamp |-> now,
                               memory_type |-> "observation",
                               content |-> <<"note ", ToString(Len(memory) + 1)>>,
                               metadata |-> EmptyDict, session_id |-> w.session_id])
    /\ UNCHANGED <<store_up, now, actions, thvars, bmvars, q_calls, work_items, rtvars, crvars, orchvars>>

\* await agent.observe(text): texts are numbered so that entries can be told apart
Observe ==
    /\ ThinkDone
    /\ CanStamp
    /\ \E ok \in StoreOutcomes :
        Remember("observation", <<"note ", ToString(Len(memory) + 1)>>, ok)
    /\ UNCHANGED <<store_up, now, actions, thvars, bmvars, q_calls, work_items, rtvars, crvars, orchvars>>

UserMessages == {<<"implement story 1">>}
Contexts == {<<>>, <<<<"repo", "api">>, <<"branch", "main">>>>}

\* await agent.think(msg, context=ctx) called directly (as handle_message does)
ThinkCall(msg, ctx) ==
    /\ ThinkDone
    /\ th_calls < MaxThinks
    /\ ThinkBegin(msg, ctx)
    /\ UNCHANGED <<bmvars, q_calls, work_items, rtvars, crvars, orchvars>>

\* the frame of a finished think call is gone
ThinkFrameGone ==
    /\ th_pc' = "idle"
    /\ th_msg' = <<>>
    /\ th_ctx' = <<>>
    /\ th_start' = 0
    /\ th_recent' = <<>>
    /\ th_messages' = <<>>
    /\ th_response' = NoResponse
    /\ th_error' = None
    /\ th_mark' = [mem |-> 0, act |-> 0]
    /\ th_events' = <<>>
    /\ UNCHANGED th_calls

\* the caller has the response or the exception
ThinkFinish ==
    /\ th_pc \in {"returned", "raised"}
    /\ ThinkFrameGone
    /\ UNCHANGED <<storevars, bmvars, q_calls, work_items, rtvars, crvars, orchvars>>

(***************************************************************************)
(* OrchestratorAgent: agents/orchestrator.py                               *)
(***************************************************************************)

AgentIds == {"requirements", "release_manager", "code_repo_api", "code_repo_web"}
Repos == {"api", "web"}
CodeAgentId(repo) == "code_repo_" \o repo

\* task.get(key) with None for a missing key
Get(task, key) == IF Has(task, key) THEN task[key] ELSE None

\* task.get(key, default)
GetOr(task, key, default) == IF Has(task, key) THEN task[key] ELSE default

Tasks ==
    {[type |-> "implement_story", story_id |-> 1],
     [type |-> "split_feature", feature_id |-> 2, story_count |-> 2],
     [type |-> "create_release", components |-> <<"api", "web">>, source_branch |-> "release-base"],
     [type |-> "create_release"],
     [type |-> "bogus"],
     [story_id |-> 1]}

\* what a delegated agent's process_task may answer: a result or an exception.
\* A requirements agent's result carries affected_repos at the top level (as the
\* orchestrator reads it) or nested under "requirements" (as RequirementsAgent
\* builds it).
AgentRaised == [raised |-> "AgentError"]
RequirementsResults ==
    {[success |-> TRUE, affected_repos |-> <<"api", "web">>],
     [success |-> TRUE, affected_repos |-> <<"web">>],
     [success |-> TRUE, requirements |-> [affected_repos |-> <<"api">>]],
     [success |-> FALSE, error |-> <<"Unknown task type: ", "analyze_requirements">>]}
CodeResults == {[success |-> TRUE, branch |-> "feature/1"],
                [success |-> FALSE, error |-> <<"Build failed">>]}
ReleaseResults == {[success |-> TRUE, release_branch |-> "release/1"],
                   [success |-> FALSE, error |-> <<"No components specified">>]}

\* the structured failure {"success": False, "error": ...}
\* (first: a variant with a fixed error text)
FailureUnspecific(error) == [success |-> FALSE, error |-> <<"Task failed">>]
Failure(error) == [success |-> FALSE, error |-> error]

\* register_agent(agent): self.active_agents[agent.agent_id] = agent
\* (first: a variant of the assignment that keeps an entry already present)
RegistryKeepingFirst(id, instance) ==
    IF active_agents[id] # 0 THEN active_agents ELSE [active_agents EXCEPT ![id] = instance]
RegistryWith(id, instance) == [active_agents EXCEPT ![id] = instance]

RegisterAgent(id, instance) ==
    /\ o_pc \in {"idle", "done"}
    /\ o_tasks < MaxTasks          \* a registration no later call can see is left out
    /\ active_agents' = RegistryWith(id, instance)
    /\ reg_history' = [reg_history EXCEPT ![id] = [seen |-> @.seen \cup {instance},
                                                    last |-> instance]]
    /\ UNCHANGED <<o_pc, o_tasks, o_task, o_found, o_req_result, o_repos, o_code_results,
                   o_error, o_return, o_calls, o_mark, storevars, thvars, bmvars, q_calls, work_items, rtvars, crvars>>

\* (first: a variant in which a step of a call empties the registry)
OFrameClearingRegistry ==
    /\ active_agents' = [id \in AgentIds |-> 0]
    /\ UNCHANGED <<store_up, now, actions, thvars, bmvars, q_calls, work_items, rtvars, crvars, o_tasks, o_mark, reg_history>>
OFrame ==
    UNCHANGED <<store_up, now, actions, thvars, bmvars, q_calls, work_items, rtvars, crvars, active_agents, o_tasks, o_mark,
                reg_history>>

\* process_task(task) is called (the calls are awaited one at a time)
ProcessTask(task) ==
    /\ o_pc \in {"idle", "done"}
    /\ o_tasks < MaxTasks
    /\ o_tasks' = o_tasks + 1
    /\ o_task' = task
    /\ o_pc' = "observe"
    /\ o_found' = FALSE
    /\ o_req_result' = EmptyDict
    /\ o_repos' = <<>>
    /\ o_code_results' = <<>>
    /\ o_error' = None
    /\ o_return' = NoResult
    /\ o_calls' = <<>>
    /\ o_mark' = [mem |-> Len(memory), agents |-> active_agents]
    /\ ThinkFrameGone
    /\ UNCHANGED <<storevars, bmvars, q_calls, work_items, rtvars, crvars, active_agents, reg_history>>

\* `await self.observe(f"Received task: {task_type}")`, before the try block
OObserve ==
    /\ o_pc = "observe"
    /\ CanStamp
    /\ \E ok \in StoreOutcomes :
        /\ Remember("observation", <<"Received task: ", Get(o_task, "type")>>, ok)
        /\ IF ok THEN o_pc' = "decide" /\ UNCHANGED o_return
           ELSE o_pc' = "done" /\ o_return' = [raised |-> StorageError]
    /\ UNCHANGED <<o_task, o_found, o_req_result, o_repos, o_code_results, o_error, o_calls>>
    /\ OFrame

\* `await self.decide(f"Processing {task_type} task")`, before the try block
ODecide ==
    /\ o_pc = "decide"
    /\ CanStamp
    /\ \E ok \in StoreOutcomes :
        /\ Remember("decision", <<"Processing ", Get(o_task, "type"), " task">>, ok)
        /\ IF ok THEN o_pc' = "route" /\ UNCHANGED o_return
           ELSE o_pc' = "done" /\ o_return' = [raised |-> StorageError]
    /\ UNCHANGED <<o_task, o_found, o_req_result, o_repos, o_code_results, o_error, o_calls>>
    /\ OFrame

OLocals ==
    <<o_task, o_found, o_req_result, o_repos, o_code_results, o_error, o_mark, reg_history>>

Return(result) == o_pc' = "done" /\ o_return' = result

\* control reaches `except Exception as e:` of process_task
\* (first: a variant that forgets which exception it caught)
CaughtAnonymous(e) == o_pc' = "except" /\ o_error' = "Exception" /\ UNCHANGED o_return
Caught(e) == o_pc' = "except" /\ o_error' = e /\ UNCHANGED o_return

\* `agent_id in self.active_agents` (first: a variant satisfied by any registration)
RegisteredAny(id) == \E a \in AgentIds : active_agents[a] # 0
Registered(id) == active_agents[id] # 0

\* history: a collaborator raised e inside the try block
Raised(e) == Append(o_calls, [raised |-> e])

AgentCall(id, task) == [agent |-> id, instance |-> active_agents[id], task |-> task]
AdoCall(op) == [ado |-> op]

\* `if task_type == "implement_story": return await self._implement_story(task)`
\* up to `await self.think(analysis_prompt)`
ORouteImplement ==
    /\ o_pc = "route"
    /\ Get(o_task, "type") = "implement_story"
    /\ o_calls' = Append(o_calls, AdoCall("get_work_item"))
    /\ \E found \in BOOLEAN :
        /\ o_found' = found
        /\ IF found THEN
               /\ th_calls < MaxThinks
               /\ ThinkBegin(<<"Analyze this story: ", ToString(o_task.story_id)>>, <<>>)
               /\ o_pc' = "analysis"
               /\ UNCHANGED <<o_return, o_error>>
           ELSE
               /\ Return(Failure(<<"Story ", ToString(o_task.story_id), " not found">>))
               /\ UNCHANGED <<storevars, thvars, o_error>>
    /\ UNCHANGED <<o_task, o_req_result, o_repos, o_code_results, bmvars, q_calls, work_items, rtvars, crvars, active_agents,
                   o_tasks, o_mark, reg_history>>

\* `elif task_type == "split_feature": return await self._split_feature(task)`
\* up to `await self.think(split_prompt)`
ORouteSplit ==
    /\ o_pc = "route"
    /\ Get(o_task, "type") = "split_feature"
    /\ o_calls' = Append(o_calls, AdoCall("get_work_item"))
    /\ \E found \in BOOLEAN :
        /\ o_found' = found
        /\ IF found THEN
               /\ th_calls < MaxThinks
               /\ ThinkBegin(<<"Split this feature: ", ToString(o_task.feature_id)>>, <<>>)
               /\ o_pc' = "split"
               /\ UNCHANGED <<o_return, o_error>>
           ELSE
               /\ Return(Failure(<<"Feature ", ToString(o_task.feature_id), " not found">>))
               /\ UNCHANGED <<storevars, thvars, o_error>>
    /\ UNCHANGED <<o_task, o_req_result, o_repos, o_code_results, bmvars, q_calls, work_items, rtvars, crvars, active_agents,
                   o_tasks, o_mark, reg_history>>

\* _create_release without a release manager: the structured failure
\* (first: a variant that indexes the registry without looking)
ReleaseManagerMissingRaises == [raised |-> "KeyError"]
ReleaseManagerMissing == Failure(<<"Release manager agent not available">>)

\* _create_release: the task handed to the release manager
\* (first: a variant that passes the task's source branch on as it is, None
\* when the task names none)
ReleaseTaskWithoutDefault(task) ==
    [type |-> "create_release", components |-> GetOr(task, "components", <<>>),
     source_branch |-> Get(task, "source_branch")]
ReleaseTask(task) ==
    [type |-> "create_release", components |-> GetOr(task, "components", <<>>),
     source_branch |-> GetOr(task, "source_branch", "main")]

\* `elif task_type == "create_release": return await self._create_release(task)`
\* up to `await release_agent.process_task(...)`
ORouteRelease ==
    /\ o_pc = "route"
    /\ Get(o_task, "type") = "create_release"
    /\ IF Registered("release_manager") THEN
           /\ o_calls' = Append(o_calls,
                 AgentCall("release_manager", ReleaseTask(o_task)))
           /\ o_pc' = "await_release"
           /\ UNCHANGED o_return
       ELSE
           /\ Return(ReleaseManagerMissing)
           /\ UNCHANGED o_calls
    /\ UNCHANGED <<OLocals, storevars, thvars, bmvars, q_calls, work_items, rtvars, crvars, active_agents, o_tasks>>

\* `else: return {"success": False, "error": f"Unknown task type: {task_type}"}`
ORouteUnknown ==
    /\ o_pc = "route"
    /\ Get(o_task, "type") \notin {"implement_story", "split_feature", "create_release"}
    /\ Return(Failure(<<"Unknown task type: ", Get(o_task, "type")>>))
    /\ UNCHANGED <<OLocals, o_calls, storevars, thvars, bmvars, q_calls, work_items, rtvars, crvars, active_agents, o_tasks>>

\* _implement_story: think returned or raised
OAnalysisDone ==
    /\ o_pc = "analysis"
    /\ th_pc \in {"returned", "raised"}
    /\ IF th_pc = "raised" THEN Caught(th_error) /\ o_calls' = Raised(th_error)
       ELSE o_pc' = "record" /\ UNCHANGED <<o_error, o_return, o_calls>>
    /\ UNCHANGED <<o_task, o_found, o_req_result, o_repos, o_code_results, o_mark, reg_history,
                   storevars, thvars, bmvars, q_calls, work_items, rtvars, crvars, active_agents, o_tasks>>

\* `await self.record_action(f"Analyzed story {story_id}: {response.content[:200]}")`,
\* then the requirements agent is invoked if one is registered, else the
\* free-text analysis is returned
ORecordAction ==
    /\ o_pc = "record"
    /\ CanStamp
    /\ \E ok \in StoreOutcomes :
        /\ Remember("action", <<"Analyzed story ", ToString(o_task.story_id), ": ">>
                              \o Preview(th_response.content), ok)
        /\ IF ~ok THEN
               Caught(StorageError) /\ o_calls' = Raised(StorageError)
           ELSE IF Registered("requirements") THEN
               /\ o_calls' = Append(o_calls,
                     AgentCall("requirements", [type |-> "analyze_requirements"]))
               /\ o_pc' = "await_requirements"
               /\ UNCHANGED <<o_error, o_return>>
           ELSE
               /\ Return([success |-> TRUE, story_id |-> o_task.story_id,
                          analysis |-> th_response.content])
               /\ UNCHANGED <<o_calls, o_error>>
    /\ UNCHANGED <<o_task, o_found, o_req_result, o_repos, o_code_results>>
    /\ OFrame

\* the requirements agent's process_task returned or raised;
\* `for repo in req_result.get("affected_repos", [])`
ORequirementsDone ==
    /\ o_pc = "await_requirements"
    /\ \E out \in RequirementsResults \cup {AgentRaised} :
        IF Has(out, "raised") THEN
            /\ Caught(out.raised)
            /\ o_calls' = Raised(out.raised)
            /\ UNCHANGED <<o_req_result, o_repos>>
        ELSE
            /\ o_req_result' = out
            /\ o_repos' = IF Has(out, "affected_repos") THEN out.affected_repos ELSE <<>>
            /\ o_pc' = "delegate"
            /\ UNCHANGED <<o_error, o_return, o_calls>>
    /\ UNCHANGED <<o_task, o_found, o_code_results, o_mark, reg_history, storevars, thvars, bmvars, q_calls, work_items, rtvars, crvars,
                   active_agents, o_tasks>>

\* _implement_story: the composite result returned after the delegation loop
\* (first: a variant whose success flag is that of the delegated results)
StoryResultAsDelegated ==
    [success |-> /\ GetOr(o_req_result, "success", TRUE)
                 /\ \A i \in 1..Len(o_code_results) : o_code_results[i].success,
     story_id |-> o_task.story_id, analysis |-> th_response.content,
     requirements |-> o_req_result, code_results |-> o_code_results]
StoryResult ==
    [success |-> TRUE, story_id |-> o_task.story_id, analysis |-> th_response.content,
     requirements |-> o_req_result, code_results |-> o_code_results]

\* one turn of the delegation loop: the next repository's code agent is invoked
\* if it is registered; after the last repository the composite result is returned
ODelegate ==
    /\ o_pc = "delegate"
    /\ IF o_repos = <<>> THEN
           /\ Return(StoryResult)
           /\ UNCHANGED <<o_repos, o_calls>>
       ELSE IF Registered(CodeAgentId(Head(o_repos))) THEN
           /\ o_calls' = Append(o_calls,
                 AgentCall(CodeAgentId(Head(o_repos)),
                           [type |-> "implement",
                            requirements |-> Get(o_req_result, "requirements")]))
           /\ o_pc' = "await_code"
           /\ UNCHANGED <<o_repos, o_return>>
       ELSE
           /\ o_repos' = Tail(o_repos)
           /\ UNCHANGED <<o_pc, o_calls, o_return>>
    /\ UNCHANGED <<o_task, o_found, o_req_result, o_code_results, o_error, o_mark, reg_history,
                   storevars, thvars, bmvars, q_calls, work_items, rtvars, crvars, active_agents, o_tasks>>

\* `code_results.append(result)` (first: a variant that puts the result in front)
CodeResultsWithInFront(result) == <<result>> \o o_code_results
CodeResultsWith(result) == Append(o_code_results, result)

\* the code agent's process_task returned or raised
OCodeDone ==
    /\ o_pc = "await_code"
    /\ \E out \in CodeResults \cup {AgentRaised} :
        IF Has(out, "raised") THEN
            /\ Caught(out.raised)
            /\ o_calls' = Raised(out.raised)
            /\ UNCHANGED <<o_code_results, o_repos>>
        ELSE
            /\ o_code_results' = CodeResultsWith(out)
            /\ o_repos' = Tail(o_repos)
            /\ o_pc' = "delegate"
            /\ UNCHANGED <<o_error, o_return, o_calls>>
    /\ UNCHANGED <<o_task, o_found, o_req_result, o_mark, reg_history, storevars, thvars, bmvars, q_calls, work_items, rtvars, crvars,
                   active_agents, o_tasks>>

\* _split_feature: think returned or raised; split_feature_into_stories never
\* raises (the client catches) and answers the stories it could create
OSplitDone ==
    /\ o_pc = "split"
    /\ th_pc \in {"returned", "raised"}
    /\ IF th_pc = "raised" THEN
           Caught(th_error) /\ o_calls' = Raised(th_error)
       ELSE
           /\ o_calls' = Append(o_calls, AdoCall("split_feature_into_stories"))
           /\ \E stories \in {<<>>, <<"story 1", "story 2">>} :
                Return([success |-> TRUE, feature_id |-> o_task.feature_id,
                        stories |-> stories, suggestions |-> th_response.content])
           /\ UNCHANGED o_error
    /\ UNCHANGED <<o_task, o_found, o_req_result, o_repos, o_code_results, o_mark, reg_history,
                   storevars, thvars, bmvars, q_calls, work_items, rtvars, crvars, active_agents, o_tasks>>

\* _create_release: the release manager's process_task returned or raised
OReleaseDone ==
    /\ o_pc = "await_release"
    /\ \E out \in ReleaseResults \cup {AgentRaised} :
        IF Has(out, "raised") THEN Caught(out.raised) /\ o_calls' = Raised(out.raised)
        ELSE Return(out) /\ UNCHANGED <<o_error, o_calls>>
    /\ UNCHANGED <<o_task, o_found, o_req_result, o_repos, o_code_results, o_mark, reg_history,
                   storevars, thvars, bmvars, q_calls, work_items, rtvars, crvars, active_agents, o_tasks>>

\* `except Exception as e:` - record the failure, return {"success": False, "error": str(e)};
\* an exception of record_result itself leaves process_task
OExcept ==
    /\ o_pc = "except"
    /\ CanStamp
    /\ \E ok \in StoreOutcomes :
        /\ Remember("result", <<"Task failed: ", o_error>>, ok)
        /\ IF ok THEN Return(Failure(<<o_error>>))
           ELSE Return([raised |-> StorageError])
    /\ UNCHANGED <<OLocals, o_calls>>
    /\ OFrame

(***************************************************************************)
(* Initial states and specifications                                       *)
(***************************************************************************)

\* every component at rest: no build tracked, an empty store at hour 0, no
\* think call and no task in progress, an empty registry
Init ==
    /\ max_retries = MaxRetriesSetting
    /\ monitored_builds = [b \in BuildIds |-> 0]
    /\ build_info = <<>>
    /\ ado_builds = {1}
    /\ retry_of = [b \in BuildIds |-> 0]
    /\ mon_pc = "idle"
    /\ mon_build = 0
    /\ bm_return = NoResult
    /\ bm_queued = 0
    /\ bm_writes = <<>>
    /\ streak = NoStreak
    /\ mon_seen = NoResult
    /\ store_up = TRUE
    /\ now = 0
    /\ memory = <<>>
    /\ actions = <<>>
    /\ th_pc = "idle"
    /\ th_calls = 0
    /\ th_msg = <<>>
    /\ th_ctx = <<>>
    /\ th_start = 0
    /\ th_recent = <<>>
    /\ th_messages = <<>>
    /\ th_response = NoResponse
    /\ th_error = None
    /\ th_mark = [mem |-> 0, act |-> 0]
    /\ th_events = <<>>
    /\ active_agents = [id \in AgentIds |-> 0]
    /\ o_pc = "idle"
    /\ o_tasks = 0
    /\ o_task = EmptyDict
    /\ o_found = FALSE
    /\ o_req_result = EmptyDict
    /\ o_repos = <<>>
    /\ o_code_results = <<>>
    /\ o_error = None
    /\ o_return = NoResult
    /\ o_calls = <<>>
    /\ o_mark = [mem |-> 0, agents |-> [id \in AgentIds |-> 0]]
    /\ reg_history = [id \in AgentIds |-> [seen |-> {}, last |-> 0]]
    /\ q_calls = <<>>
    /\ work_items = <<>>
    /\ cr_pc = "idle"
    /\ cr_tasks = 0
    /\ cr_task = <<>>
    /\ cr_repo = "None"
    /\ cr_branch = "None"
    /\ cr_response = [pending |-> TRUE]
    /\ cr_procs = <<>>
    /\ cr_elapsed = 0
    /\ cr_build = [pending |-> TRUE]
    /\ cr_return = [pending |-> TRUE]
    /\ cr_calls = <<>>
    /\ cr_writes = <<>>
    /\ rt_pc = [t \in RaceTasks |-> "none"]
    /\ rt_build = 0
    /\ rt_info = <<>>
    /\ rt_results = [t \in RaceTasks |-> NoResult]

\* the same, for any configured retry budget
InitBuildMonitor ==
    /\ max_retries \in 0..MaxRetriesSetting
    /\ monitored_builds = [b \in BuildIds |-> 0]
    /\ build_info = <<>>
    /\ ado_builds = {1}
    /\ retry_of = [b \in BuildIds |-> 0]
    /\ mon_pc = "idle"
    /\ mon_build = 0
    /\ bm_return = NoResult
    /\ bm_queued = 0
    /\ bm_writes = <<>>
    /\ streak = NoStreak
    /\ mon_seen = NoResult
    /\ store_up = TRUE
    /\ now = 0
    /\ memory = <<>>
    /\ actions = <<>>
    /\ th_pc = "idle"
    /\ th_calls = 0
    /\ th_msg = <<>>
    /\ th_ctx = <<>>
    /\ th_start = 0
    /\ th_recent = <<>>
    /\ th_messages = <<>>
    /\ th_response = NoResponse
    /\ th_error = None
    /\ th_mark = [mem |-> 0, act |-> 0]
    /\ th_events = <<>>
    /\ active_agents = [id \in AgentIds |-> 0]
    /\ o_pc = "idle"
    /\ o_tasks = 0
    /\ o_task = EmptyDict
    /\ o_found = FALSE
    /\ o_req_result = EmptyDict
    /\ o_repos = <<>>
    /\ o_code_results = <<>>
    /\ o_error = None
    /\ o_return = NoResult
    /\ o_calls = <<>>
    /\ o_mark = [mem |-> 0, agents |-> [id \in AgentIds |-> 0]]
    /\ reg_history = [id \in AgentIds |-> [seen |-> {}, last |-> 0]]
    /\ q_calls = <<>>
    /\ work_items = <<>>
    /\ cr_pc = "idle"
    /\ cr_tasks = 0
    /\ cr_task = <<>>
    /\ cr_repo = "None"
    /\ cr_branch = "None"
    /\ cr_response = [pending |-> TRUE]
    /\ cr_procs = <<>>
    /\ cr_elapsed = 0
    /\ cr_build = [pending |-> TRUE]
    /\ cr_return = [pending |-> TRUE]
    /\ cr_calls = <<>>
    /\ cr_writes = <<>>
    /\ rt_pc = [t \in RaceTasks |-> "none"]
    /\ rt_build = 0
    /\ rt_info = <<>>
    /\ rt_results = [t \in RaceTasks |-> NoResult]

BMNext ==
    \/ \E b \in BuildIds : MonitorStart(b)
    \/ MonitorCheck
    \/ MonitorAnalyzed
    \/ \E b \in BuildIds : RetryBuildTask(b)

\* the build monitor serving monitor_pr_build and retry_build tasks
SpecBuildMonitor == InitBuildMonitor /\ [][BMNext]_vars

RetryRaceNext ==
    \/ rt_build = 0 /\ BMNext
    \/ \E b \in BuildIds : GatherRetries(b)
    \/ \E t \in RaceTasks : RetryRuns(t)
    \/ \E t \in RaceTasks : RetryResumes(t)

\* the build monitor serving tasks one at a time and then a batch of
\* concurrently scheduled retry_build tasks for one build
SpecRetryRace == InitBuildMonitor /\ [][RetryRaceNext]_vars

ThinkNext ==
    \/ AdvanceClock
    \/ \E w \in OtherWriters : ForeignWrite(w)
    \/ Observe
    \/ \E msg \in UserMessages, ctx \in Contexts : ThinkCall(msg, ctx)
    \/ ThinkFinish
    \/ ThinkGenerateStep
    \/ ThinkStoreStep
    \/ ThinkLogStep
    \/ ThinkExceptStep

\* one agent observing and thinking over a store other agents write to
SpecThink == Init /\ [][ThinkNext]_vars

\* the same with ClickHouse requests that may fail
SpecThinkFaults == Init /\ [][ThinkNext \/ StoreFails \/ StoreRecovers]_vars

OrchNext ==
    \/ AdvanceClock
    \/ \E id \in AgentIds, instance \in 1..MaxInstances : RegisterAgent(id, instance)
    \/ \E task \in Tasks : ProcessTask(task)
    \/ OObserve
    \/ ODecide
    \/ ORouteImplement
    \/ ORouteSplit
    \/ ORouteRelease
    \/ ORouteUnknown
    \/ OAnalysisDone
    \/ ORecordAction
    \/ ORequirementsDone
    \/ ODelegate
    \/ OCodeDone
    \/ OSplitDone
    \/ OReleaseDone
    \/ OExcept
    \/ ThinkGenerateStep
    \/ ThinkStoreStep
    \/ ThinkLogStep
    \/ ThinkExceptStep

\* the orchestrator serving process_task calls
SpecOrchestrator == Init /\ [][OrchNext]_vars

\* the messages handle_message is given: a command and the id it names
HandledMessages == {<<"implement story ", "12345">>, <<"split feature ", "456">>}

\* handle_message: the prompt built around the user's message
ParsePrompt(message) ==
    <<"Parse this user request and extract task details:\n\nMessage: \"">> \o message
        \o <<"\"\n\nIdentify:\n1. Task type (implement_story, split_feature, create_release, or other)\n2. Work item IDs if mentioned\n3. Component names if mentioned\n4. Any specific parameters\n\nRespond with a structured JSON-like format.">>

\* handle_message(message) is called: `await self.think(parse_prompt, temperature=0.3)`
HandleMessage(message) ==
    /\ o_pc \in {"idle", "done"}
    /\ o_tasks < MaxTasks
    /\ o_tasks' = o_tasks + 1
    /\ o_task' = [message |-> message]
    /\ o_pc' = "message"
    /\ o_found' = FALSE
    /\ o_req_result' = EmptyDict
    /\ o_repos' = <<>>
    /\ o_code_results' = <<>>
    /\ o_error' = None
    /\ o_return' = NoResult
    /\ o_calls' = <<>>
    /\ o_mark' = [mem |-> Len(memory), agents |-> active_agents]
    /\ ThinkBegin(ParsePrompt(message), <<>>)
    /\ UNCHANGED <<bmvars, q_calls, work_items, rtvars, crvars, active_agents, reg_history>>

\* handle_message: think returned, and the string built from the response is
\* returned (held under "text"), or think raised and the exception propagates
HandleMessageDone ==
    /\ o_pc = "message"
    /\ th_pc \in {"returned", "raised"}
    /\ IF th_pc = "raised" THEN Return([raised |-> th_error])
       ELSE Return([text |-> <<"Understood your request:\n">> \o th_response.content
                                \o <<"\n\nI will process this task now.">>])
    /\ UNCHANGED <<OLocals, o_calls, storevars, thvars, bmvars, q_calls, work_items, rtvars, crvars, active_agents, o_tasks>>

\* the orchestrator serving process_task and handle_message calls
SpecOrchestratorCalls ==
    Init /\ [][OrchNext \/ HandleMessageDone \/ \E message \in HandledMessages : HandleMessage(message)]_vars

\* the registry alone, under any sequence of register_agent calls
RegistryNext ==
    \E id \in AgentIds, instance \in 1..MaxRegistered : RegisterAgent(id, instance)

SpecRegistry == Init /\ [][RegistryNext]_vars

\* the same with ClickHouse requests that may fail
SpecOrchestratorFaults == Init /\ [][OrchNext \/ StoreFails \/ StoreRecovers]_vars

\* the continuations of a process_task call: each is an `await` of the call or
\* of the think it awaits, resumed by the event loop once the awaited LLM,
\* Event Store, work-tracking or agent call has returned or raised
OrchSteps ==
    \/ OObserve
    \/ ODecide
    \/ ORouteImplement
    \/ ORouteSplit
    \/ ORouteRelease
    \/ ORouteUnknown
    \/ OAnalysisDone
    \/ ORecordAction
    \/ ORequirementsDone
    \/ ODelegate
    \/ OCodeDone
    \/ OSplitDone
    \/ OReleaseDone
    \/ OExcept
    \/ ThinkGenerateStep
    \/ ThinkStoreStep
    \/ ThinkLogStep
    \/ ThinkExceptStep

\* the orchestrator when every awaited call ends and time passes
SpecOrchestratorFair ==
    SpecOrchestrator /\ WF_vars(OrchSteps) /\ WF_vars(AdvanceClock)

\* the same with ClickHouse requests that may fail
SpecOrchestratorFaultsFair ==
    SpecOrchestratorFaults /\ WF_vars(OrchSteps) /\ WF_vars(AdvanceClock)
(***************************************************************************)
(* ClickHouseMemory called directly: memory/clickhouse_memory.py           *)
(***************************************************************************)

\* a text is here the sequence of its characters; a character outside ASCII
\* is written by its code point ("U+00C9" is E acute, "U+00E9" is e acute)
UpperAscii == <<"A", "B", "C", "D", "E", "F", "G", "H", "I", "J", "K", "L", "M", "N", "O", "P", "Q", "R", "S", "T", "U", "V", "W", "X", "Y", "Z">>
LowerAscii == <<"a", "b", "c", "d", "e", "f", "g", "h", "i", "j", "k", "l", "m", "n", "o", "p", "q", "r", "s", "t", "u", "v", "w", "x", "y", "z">>

\* the case folding of positionCaseInsensitive: ASCII letters only (ClickHouse
\* has positionCaseInsensitiveUTF8 for the rest, which the query does not use)
AsciiLower(c) ==
    IF \E i \in 1..Len(UpperAscii) : UpperAscii[i] = c
    THEN LowerAscii[CHOOSE i \in 1..Len(UpperAscii) : UpperAscii[i] = c]
    ELSE c

\* positionCaseInsensitive(haystack, needle): the first position at which
\* needle occurs in haystack, letters A-Z taken as a-z; 0 if there is none
positionCaseInsensitive(haystack, needle) ==
    LET at == {i \in 1..(Len(haystack) - Len(needle) + 1) :
                  \A j \in 1..Len(needle) :
                      AsciiLower(haystack[i + j - 1]) = AsciiLower(needle[j])}
    IN IF at = {} THEN 0 ELSE CHOOSE i \in at : \A o \in at : i <= o

\* rows of agent_memory matching the WHERE clause of search_memories
SearchRows(agent_id, query) ==
    {i \in 1..Len(memory) :
        /\ memory[i].agent_id = agent_id
        /\ positionCaseInsensitive(memory[i].content, query) > 0}

\* search_memories: the possible results
search_memories(agent_id, query, limit) == NewestFirst(SearchRows(agent_id, query), limit)

\* what callers store: the two entries of the build monitor's scenario, one in
\* capitals and one with an accented capital from another session, and an
\* entry of another agent
StoredContents ==
    [failed |-> <<"b", "u", "i", "l", "d", " ", "f", "a", "i", "l", "e", "d", ":", " ", "t", "i", "m", "e", "o", "u", "t">>,
     succeeded |-> <<"b", "u", "i", "l", "d", " ", "s", "u", "c", "c", "e", "e", "d", "e", "d">>,
     capitals |-> <<"B", "u", "i", "l", "d", " ", "T", "I", "M", "E", "O", "U", "T">>,
     accented |-> <<"U+00C9", "c", "h", "e", "c">>,
     other |-> <<"a", "p", "i", " ", "t", "i", "m", "e", "o", "u", "t">>]

StoredEntries ==
    {[agent_id |-> "build_monitor", memory_type |-> "result", session_id |-> "session-1",
      content |-> StoredContents.failed, metadata |-> EmptyDict, timestamp |-> now],
     [agent_id |-> "build_monitor", memory_type |-> "result", session_id |-> "session-1",
      content |-> StoredContents.succeeded, metadata |-> EmptyDict, timestamp |-> now],
     [agent_id |-> "build_monitor", memory_type |-> "observation", session_id |-> "session-1",
      content |-> StoredContents.capitals, metadata |-> EmptyDict, timestamp |-> now],
     [agent_id |-> "build_monitor", memory_type |-> "observation", session_id |-> "session-2",
      content |-> StoredContents.accented, metadata |-> EmptyDict, timestamp |-> now],
     [agent_id |-> "orchestrator", memory_type |-> "observation", session_id |-> "session-1",
      content |-> StoredContents.other, metadata |-> EmptyDict, timestamp |-> now]}

\* the arguments callers query with
QueryAgents == {"build_monitor", "orchestrator"}
QueryLimits == {1, MaxStoredRows}
QueryHours == {12}
QueryTypes == {None, "observation"}
QuerySessions == {None, "session-1"}
StatisticsHours == {12, 24}
QueryTexts == {<<"t", "i", "m", "e", "o", "u", "t">>, <<"B", "U", "I", "L", "D">>, <<"U+00E9", "c", "h", "e", "c">>, <<>>}

\* memory.store_memory(entry)
StoreMemory(entry) ==
    /\ Len(memory) < MaxStoredRows
    /\ memory' = store_memory(entry)
    /\ q_calls' = <<>>
    /\ UNCHANGED <<store_up, now, actions, thvars, bmvars, orchvars, work_items, rtvars, crvars>>

\* memory.get_recent_memories(agent_id, limit, memory_type, session_id, hours)
GetRecentMemories(agent_id, limit, memory_type, session_id, hours) ==
    /\ \E result \in get_recent_memories(agent_id, limit, memory_type, session_id, hours) :
          q_calls' = <<[op |-> "get_recent_memories", agent_id |-> agent_id, limit |-> limit,
                        memory_type |-> memory_type, session_id |-> session_id,
                        hours |-> hours, at |-> now, result |-> result]>>
    /\ UNCHANGED <<storevars, thvars, bmvars, orchvars, work_items, rtvars, crvars>>

\* memory.search_memories(agent_id, query, limit)
SearchMemories(agent_id, query, limit) ==
    /\ \E result \in search_memories(agent_id, query, limit) :
          q_calls' = <<[op |-> "search_memories", agent_id |-> agent_id, query |-> query,
                        limit |-> limit, at |-> now, result |-> result]>>
    /\ UNCHANGED <<storevars, thvars, bmvars, orchvars, work_items, rtvars, crvars>>

MemoryNext ==
    \/ AdvanceClock
    \/ \E entry \in StoredEntries : StoreMemory(entry)
    \/ \E agent_id \in QueryAgents, limit \in QueryLimits, memory_type \in QueryTypes,
          session_id \in QuerySessions, hours \in QueryHours :
          GetRecentMemories(agent_id, limit, memory_type, session_id, hours)
    \/ \E agent_id \in QueryAgents, query \in QueryTexts, limit \in QueryLimits :
          SearchMemories(agent_id, query, limit)

\* callers storing entries and querying agent_memory
SpecMemory == Init /\ [][MemoryNext]_vars

\* rows of agent_actions matching the WHERE clause of get_agent_statistics
\* (first: a variant that leaves the agent out of the WHERE clause)
StatisticsRowsAnyAgent(agent_id, hours) ==
    {i \in 1..Len(actions) : actions[i].timestamp > now - hours}
StatisticsRows(agent_id, hours) ==
    {i \in 1..Len(actions) :
        /\ actions[i].agent_id = agent_id
        /\ actions[i].timestamp > now - hours}

\* sum(duration_ms) over the rows S
RECURSIVE SumDuration(_)
SumDuration(S) ==
    IF S = {} THEN 0
    ELSE LET i == CHOOSE j \in S : TRUE IN actions[i].duration_ms + SumDuration(S \ {i})

\* sum(NOT success) over the rows S
\* (first: a variant that counts every row)
FailedCountingAll(S) == Cardinality(S)
Failed(S) == Cardinality({i \in S : ~actions[i].success})

\* one row of the GROUP BY: the aggregates over the rows S of one action_type
\* (avg(duration_ms) is kept exact, as the sum and the number of rows it divides by)
StatisticsBucket(S) ==
    [count |-> Cardinality(S),
     avg_duration_ms |-> [sum |-> SumDuration(S), over |-> Cardinality(S)],
     successful |-> Cardinality({i \in S : actions[i].success}),
     failed |-> Failed(S)]

\* get_agent_statistics: the dict built from the result rows
get_agent_statistics(agent_id, hours) ==
    LET rows == StatisticsRows(agent_id, hours)
    IN [t \in {actions[i].action_type : i \in rows} |->
            StatisticsBucket({i \in rows : actions[i].action_type = t})]

\* what callers log: actions of two agents, of two types, that succeeded
\* (with a result) or failed (without one)
LoggedActions ==
    {[agent_id |-> a, action_type |-> t, success |-> ok] :
        a \in QueryAgents, t \in {"think", "retry_build"}, ok \in BOOLEAN}

\* memory.log_action(...)
LogAction(a) ==
    /\ Len(actions) < MaxStoredRows
    /\ actions' = log_action(a.agent_id, a.action_type, "llm", EmptyDict,
                             IF a.success THEN [success |-> TRUE] ELSE None, a.success,
                             IF a.success THEN 100 ELSE 300, None)
    /\ q_calls' = <<>>
    /\ UNCHANGED <<store_up, now, memory, thvars, bmvars, orchvars, work_items, rtvars, crvars>>

\* the queries answered since the last write, the oldest dropped beyond two
Recorded(call) == IF Len(q_calls) < 2 THEN Append(q_calls, call) ELSE <<q_calls[2], call>>

\* table agent_actions once get_agent_statistics has run: the query only reads
\* (first: a variant in which the call logs itself)
AfterStatisticsLogged(agent_id, hours) ==
    IF Len(actions) < MaxStoredRows
    THEN log_action(agent_id, "get_statistics", "store", EmptyDict, None, TRUE, 0, None)
    ELSE actions
AfterStatistics(agent_id, hours) == actions

\* memory.get_agent_statistics(agent_id, hours), which Agent.get_statistics passes on
GetAgentStatistics(agent_id, hours) ==
    /\ q_calls' = Recorded([op |-> "get_agent_statistics", agent_id |-> agent_id,
                            hours |-> hours, at |-> now, before |-> actions,
                            result |-> get_agent_statistics(agent_id, hours)])
    /\ actions' = AfterStatistics(agent_id, hours)
    /\ UNCHANGED <<store_up, now, memory, thvars, bmvars, orchvars, work_items, rtvars, crvars>>

StatisticsNext ==
    \/ AdvanceClock
    \/ \E a \in LoggedActions : LogAction(a)
    \/ \E agent_id \in QueryAgents, hours \in StatisticsHours : GetAgentStatistics(agent_id, hours)

\* callers logging actions and asking for statistics
SpecStatistics == Init /\ [][StatisticsNext]_vars

\* json.dumps / json.loads of a dict of strings and numbers: the text stands
\* for the value it was made from
json_dumps(value) == [json |-> value]
json_loads(text) == text.json

\* None where a dict is expected (an argument, or what get_work_item returns)
NoDict == [none |-> TRUE]

\* store_work_item: one row appended to work_items, stamped datetime.now()
\* (metadata_given is history: the metadata argument as the caller passed it)
store_work_item(work_item_id, item_type, title, description, state, assigned_agent, metadata) ==
    Append(work_items,
           [work_item_id |-> work_item_id, timestamp |-> now, item_type |-> item_type,
            title |-> title, description |-> description, state |-> state,
            assigned_agent |-> assigned_agent,
            metadata |-> json_dumps(IF metadata = NoDict THEN EmptyDict ELSE metadata),
            metadata_given |-> metadata])

\* the dict get_work_item builds from a result row
WorkItemDict(row) ==
    [work_item_id |-> row.work_item_id, timestamp |-> row.timestamp,
     item_type |-> row.item_type, title |-> row.title, description |-> row.description,
     state |-> row.state, assigned_agent |-> row.assigned_agent,
     metadata |-> json_loads(row.metadata)]

\* the rows `WHERE work_item_id = ... ORDER BY timestamp DESC LIMIT 1` may
\* answer with: any row of the id with the greatest timestamp (without FINAL
\* the rows of a ReplacingMergeTree not yet merged are all read)
NewestWorkItemRows(work_item_id) ==
    LET rows == {i \in 1..Len(work_items) : work_items[i].work_item_id = work_item_id}
    IN {i \in rows : \A o \in rows : work_items[o].timestamp <= work_items[i].timestamp}

\* get_work_item: the possible results
get_work_item(work_item_id) ==
    IF NewestWorkItemRows(work_item_id) = {} THEN {NoDict}
    ELSE {WorkItemDict(work_items[i]) : i \in NewestWorkItemRows(work_item_id)}

\* the work items callers store, and the ids they look up
WorkItemIds == {"12345", "456"}
WorkItemSnapshots ==
    {[work_item_id |-> id, item_type |-> "User Story", title |-> <<"Story ", id>>,
      description |-> <<"As a user">>, state |-> st, assigned_agent |-> who.agent,
      metadata |-> who.metadata] :
        id \in WorkItemIds, st \in {"New", "Active"},
        who \in {[agent |-> None, metadata |-> NoDict],
                 [agent |-> "orchestrator", metadata |-> [priority |-> 1]]}}
LookupIds == WorkItemIds \cup {"789"}

\* memory.store_work_item(...)
StoreWorkItem(w) ==
    /\ Len(work_items) < MaxStoredRows
    /\ work_items' = store_work_item(w.work_item_id, w.item_type, w.title, w.description,
                                     w.state, w.assigned_agent, w.metadata)
    /\ q_calls' = <<>>
    /\ UNCHANGED <<storevars, thvars, bmvars, orchvars, rtvars, crvars>>

\* memory.get_work_item(work_item_id)
GetWorkItem(work_item_id) ==
    /\ \E result \in get_work_item(work_item_id) :
          q_calls' = <<[op |-> "get_work_item", work_item_id |-> work_item_id, at |-> now,
                        result |-> result]>>
    /\ UNCHANGED <<storevars, thvars, bmvars, orchvars, work_items, rtvars, crvars>>

WorkItemNext ==
    \/ AdvanceClock
    \/ \E w \in WorkItemSnapshots : StoreWorkItem(w)
    \/ \E work_item_id \in LookupIds : GetWorkItem(work_item_id)

\* callers storing and looking up work items
SpecWorkItems == Init /\ [][WorkItemNext]_vars

\* room in the three tables together for one more row
CanStoreRow == Len(memory) + Len(actions) + Len(work_items) < MaxEventStoreRows

\* every operation of the Event Store, issued by one agent on one work item
EventStoreNext ==
    \/ AdvanceClock
    \/ \E entry \in StoredEntries :
          CanStoreRow /\ entry.agent_id = "orchestrator" /\ StoreMemory(entry)
    \/ \E a \in LoggedActions :
          CanStoreRow /\ a.agent_id = "orchestrator" /\ a.action_type = "think" /\ LogAction(a)
    \/ \E w \in WorkItemSnapshots :
          CanStoreRow /\ w.work_item_id = "456" /\ w.assigned_agent = None /\ StoreWorkItem(w)
    \/ \E limit \in QueryLimits, hours \in QueryHours :
          GetRecentMemories("orchestrator", limit, None, None, hours)
    \/ \E limit \in QueryLimits : SearchMemories("orchestrator", <<>>, limit)
    \/ \E hours \in QueryHours : GetAgentStatistics("orchestrator", hours)
    \/ GetWorkItem("456")

\* one caller using the whole Event Store
SpecEventStore == Init /\ [][EventStoreNext]_vars

(***************************************************************************)
(* Agent.observe / decide / record_action / record_result called directly  *)
(***************************************************************************)

\* the memory type each of the four methods passes to _store_memory
RecordingMethods == {"observe", "decide", "record_action", "record_result"}
MemoryTypeOf(method) ==
    CASE method = "observe" -> "observation"
      [] method = "decide" -> "decision"
      [] method = "record_action" -> "action"
      [] method = "record_result" -> "result"

\* `metadata or {}`
OrEmptyDict(metadata) == IF metadata = NoDict \/ metadata = EmptyDict THEN EmptyDict ELSE metadata

\* what the caller of one of the four methods gets when the store write
\* succeeded or raised: nothing catches the exception of client.insert
\* (first: a variant that swallows it)
PropagatedNever(ok) == None
Propagated(ok) == IF ok THEN None ELSE StorageError

\* the texts and metadata callers pass
RecordedTexts == {<<"Monitoring build for PR 1">>, <<"Build 1 succeeded">>}
RecordedMetadata == {NoDict, [source |-> "ado"]}

\* await agent.<method>(text, metadata)
RecordCall(method, text, metadata) ==
    /\ Len(memory) < MaxStoredRows
    /\ \E ok \in StoreOutcomes :
          /\ memory' = IF ok THEN store_memory(MemoryEntry(MemoryTypeOf(method), text,
                                                           OrEmptyDict(metadata)))
                       ELSE memory
          /\ q_calls' = <<[op |-> method, text |-> text, metadata |-> metadata, at |-> now,
                           before |-> [mem |-> Len(memory), act |-> Len(actions),
                                       thinks |-> th_calls],
                           store_ok |-> ok, raised |-> Propagated(ok)]>>
    /\ UNCHANGED <<store_up, now, actions, thvars, bmvars, orchvars, work_items, rtvars, crvars>>

RecordNext ==
    \/ AdvanceClock
    \/ StoreFails
    \/ StoreRecovers
    \/ \E method \in RecordingMethods, text \in RecordedTexts, metadata \in RecordedMetadata :
          RecordCall(method, text, metadata)

\* an agent recording what it sees and does, over a store that may fail
SpecRecord == Init /\ [][RecordNext]_vars

(***************************************************************************)
(* CodeRepositoryAgent: process_task, initialize_repo and the build step   *)
(***************************************************************************)

MaxCodeTasks == 2

\* settings.build_timeout, counted in ticks of the wait
build_timeout == 2

CodeTasks ==
    {[type |-> "implement", work_item |-> [id |-> "12345", title |-> "Add login"]],
     [type |-> "fix_build", build_errors |-> <<"E1">>],
     [type |-> "deploy"]}

\* the Repo object self.repo holds: over a repo_path configured as a local
\* checkout, or over the default location settings.repos_dir / repo_name
LocalCheckout == "Repo(local_path)"
ManagedClone == "Repo(repos_dir/repo_name)"

\* what the file system and git answer to initialize_repo ("opened": the
\* configured local checkout exists; the others concern the default location)
InitializeOutcomes ==
    {"opened", "opened_pulled", "pull_failed", "open_failed", "cloned", "clone_failed"}

\* initialize_repo: the repository object left in self.repo, the answer, the
\* version-control calls made and the memory types written.  self.repo is
\* assigned before origin.pull(), so a failed pull leaves it assigned.
initialize_repo(outcome) ==
    CASE outcome = "opened" ->
           [ok |-> TRUE, repo |-> LocalCheckout, calls |-> <<"Repo">>,
            writes |-> <<MemoryTypeOf("observe")>>]
      [] outcome = "opened_pulled" ->
           [ok |-> TRUE, repo |-> ManagedClone, calls |-> <<"Repo", "origin.pull">>,
            writes |-> <<MemoryTypeOf("observe")>>]
      [] outcome = "pull_failed" ->
           [ok |-> FALSE, repo |-> ManagedClone, calls |-> <<"Repo", "origin.pull">>,
            writes |-> <<MemoryTypeOf("observe")>>]
      [] outcome = "open_failed" ->
           [ok |-> FALSE, repo |-> None, calls |-> <<"Repo">>, writes |-> <<>>]
      [] outcome = "cloned" ->
           [ok |-> TRUE, repo |-> ManagedClone, calls |-> <<"Repo.clone_from">>,
            writes |-> <<MemoryTypeOf("observe")>>]
      [] outcome = "clone_failed" ->
           [ok |-> FALSE, repo |-> None, calls |-> <<"Repo.clone_from">>,
            writes |-> <<MemoryTypeOf("observe")>>]

\* `if not self.repo: if not await self.initialize_repo(): return ...`
RepoReady(outcome) ==
    IF cr_repo = None THEN initialize_repo(outcome)
    ELSE [ok |-> TRUE, repo |-> cr_repo, calls |-> <<>>, writes |-> <<>>]

\* process_task returns
CodeReturn(result) == cr_return' = result /\ cr_pc' = "done"

\* process_task(task) up to `await self.think(...)` of _implement_changes or
\* _fix_build, or to its return
CodeProcessTask(task) ==
    /\ cr_pc \in {"idle", "done"}
    /\ cr_tasks < MaxCodeTasks
    /\ cr_tasks' = cr_tasks + 1
    /\ cr_task' = task
    /\ \E outcome \in IF cr_repo = None THEN InitializeOutcomes ELSE {"ready"} :
         LET ready == RepoReady(outcome)
             task_type == Get(task, "type")
         IN /\ cr_repo' = ready.repo
            /\ cr_calls' = ready.calls
            /\ IF ~ready.ok THEN
                   /\ CodeReturn([success |-> FALSE,
                                  error |-> "Failed to initialize repository"])
                   /\ cr_writes' = ready.writes
               ELSE IF task_type \in {"implement", "fix_build"} THEN
                   /\ cr_pc' = "think"
                   /\ cr_return' = NoResult
                   /\ cr_writes' = Append(ready.writes, MemoryTypeOf("observe"))
               ELSE
                   /\ CodeReturn([success |-> FALSE,
                                  error |-> <<"Unknown task type: ", task_type>>])
                   /\ cr_writes' = ready.writes
    /\ cr_branch' = None
    /\ cr_response' = NoResult
    /\ cr_build' = NoResult
    /\ cr_elapsed' = 0
    /\ UNCHANGED <<bmvars, storevars, thvars, orchvars, q_calls, work_items, rtvars, cr_procs>>

\* what think answers the agent: a response, or the LLM client's exception
CodeThinkOutcomes == {[content |-> <<"plan">>], [raised |-> "LLMError"]}

\* f"feature/{work_item['id']}-{work_item['title'][:30].replace(' ', '-').lower()}"
BranchName(work_item) == <<"feature/", work_item.id, "-", work_item.title>>

\* what origin.push and ado_client.create_pull_request leave _create_pull_request
\* with: a pull request, None, or the push's exception
PullRequestOutcomes == {[id |-> 7], NoDict, [raised |-> "GitCommandError"]}

\* the rest of _implement_changes or _fix_build once _run_maven_build returned
\* build_result
AfterBuild(build_result, response, branch_name, calls, writes) ==
    /\ cr_build' = build_result
    /\ IF Get(cr_task, "type") = "fix_build" THEN
           /\ CodeReturn([success |-> build_result.success, fix_plan |-> response.content,
                          build |-> build_result])
           /\ cr_calls' = calls
           /\ cr_writes' = writes
       ELSE IF build_result.success THEN
           \E commit \in {"committed", "GitCommandError"}, pr \in PullRequestOutcomes :
              IF commit # "committed" THEN
                  /\ CodeReturn([raised |-> commit])
                  /\ cr_calls' = Append(calls, "index.commit")
                  /\ cr_writes' = writes
              ELSE IF Has(pr, "raised") THEN
                  /\ CodeReturn(pr)
                  /\ cr_calls' = calls \o <<"index.commit", "origin.push">>
                  /\ cr_writes' = Append(writes, MemoryTypeOf("record_action"))
              ELSE
                  /\ CodeReturn([success |-> TRUE, branch |-> branch_name,
                                 build |-> build_result, pull_request |-> pr])
                  /\ cr_calls' = calls \o <<"index.commit", "origin.push",
                                            "ado.create_pull_request">>
                  /\ cr_writes' = writes \o
                        (IF pr = NoDict THEN <<MemoryTypeOf("record_action")>>
                         ELSE <<MemoryTypeOf("record_action"), MemoryTypeOf("record_result")>>)
       ELSE
           /\ CodeReturn([success |-> FALSE, branch |-> branch_name, build |-> build_result,
                          error |-> "Build failed"])
           /\ cr_calls' = calls
           /\ cr_writes' = writes

\* _create_branch: the git calls made, up to the one that raised
\* (first: a variant that leaves origin alone)
create_branch_without_pull(outcome) ==
    IF outcome = "created" THEN <<"heads.main.checkout", "create_head">>
    ELSE <<"heads.main.checkout">>
create_branch(outcome) ==
    IF outcome = "created" THEN <<"heads.main.checkout", "origin.pull", "create_head">>
    ELSE <<"heads.main.checkout", "origin.pull">>

\* a started subprocess
Running == [state |-> "running", returncode |-> None]

\* think returns: _create_branch and the record_action calls, then
\* _run_maven_build up to `await asyncio.wait_for(process.communicate(), ...)`
CodeThought ==
    /\ cr_pc = "think"
    /\ \E response \in CodeThinkOutcomes, branch \in {"created", "GitCommandError"},
          spawn \in {"started", "FileNotFoundError"} :
         LET implement == Get(cr_task, "type") = "implement"
             branch_name == IF implement THEN BranchName(cr_task.work_item) ELSE None
             calls == IF implement THEN cr_calls \o <<"llm">> \o create_branch(branch)
                      ELSE Append(cr_calls, "llm")
             writes == cr_writes \o <<"conversation">> \o
                       (IF implement
                        THEN <<MemoryTypeOf("record_action"), MemoryTypeOf("record_action")>>
                        ELSE <<MemoryTypeOf("record_action")>>) \o
                       <<MemoryTypeOf("observe")>>
         IN IF Has(response, "raised") THEN
                /\ CodeReturn(response)
                /\ cr_calls' = Append(cr_calls, "llm")
                /\ UNCHANGED <<cr_writes, cr_response, cr_branch, cr_procs, cr_build>>
            ELSE IF implement /\ branch # "created" THEN
                /\ CodeReturn([raised |-> branch])
                /\ cr_calls' = calls
                /\ cr_writes' = Append(cr_writes, "conversation")
                /\ cr_response' = response
                /\ UNCHANGED <<cr_branch, cr_procs, cr_build>>
            ELSE IF spawn # "started" THEN
                /\ AfterBuild([success |-> FALSE, error |-> spawn], response, branch_name,
                              Append(calls, "mvn"), writes)
                /\ cr_response' = response
                /\ cr_branch' = branch_name
                /\ UNCHANGED cr_procs
            ELSE
                /\ cr_pc' = "waiting"
                /\ cr_procs' = Append(cr_procs, Running)
                /\ cr_calls' = Append(calls, "mvn")
                /\ cr_writes' = writes
                /\ cr_response' = response
                /\ cr_branch' = branch_name
                /\ UNCHANGED <<cr_build, cr_return>>
    /\ UNCHANGED <<bmvars, storevars, thvars, orchvars, q_calls, work_items, rtvars, cr_tasks, cr_task,
                   cr_repo, cr_elapsed>>

\* time passes while wait_for waits
BuildTick ==
    /\ cr_pc = "waiting"
    /\ cr_elapsed < build_timeout
    /\ cr_elapsed' = cr_elapsed + 1
    /\ UNCHANGED <<bmvars, storevars, thvars, orchvars, q_calls, work_items, rtvars, cr_pc, cr_tasks,
                   cr_task, cr_repo, cr_branch, cr_response, cr_procs, cr_build, cr_return,
                   cr_calls, cr_writes>>

\* a running mvn subprocess ends with an exit code
MvnExits(i, code) ==
    /\ i \in 1..Len(cr_procs)
    /\ cr_procs[i].state = "running"
    /\ cr_procs' = [cr_procs EXCEPT ![i] = [state |-> "exited", returncode |-> code]]
    /\ UNCHANGED <<bmvars, storevars, thvars, orchvars, q_calls, work_items, rtvars, cr_pc, cr_tasks,
                   cr_task, cr_repo, cr_branch, cr_response, cr_elapsed, cr_build, cr_return,
                   cr_calls, cr_writes>>

\* the dict _run_maven_build builds from a finished process
\* (first: a variant that reports every finished build as a success)
BuildResultAlwaysSuccess(process) ==
    [success |-> TRUE, exit_code |-> process.returncode,
     stdout |-> "stdout", stderr |-> "stderr"]
BuildResult(process) ==
    [success |-> process.returncode = 0, exit_code |-> process.returncode,
     stdout |-> "stdout", stderr |-> "stderr"]

\* process.communicate() returned within the timeout: the rest of
\* _run_maven_build and of the task
BuildFinished ==
    /\ cr_pc = "waiting"
    /\ cr_procs[Len(cr_procs)].state = "exited"
    /\ AfterBuild(BuildResult(cr_procs[Len(cr_procs)]), cr_response, cr_branch, cr_calls,
                  Append(cr_writes, MemoryTypeOf("record_result")))
    /\ UNCHANGED <<bmvars, storevars, thvars, orchvars, q_calls, work_items, rtvars, cr_tasks, cr_task,
                   cr_repo, cr_branch, cr_response, cr_procs, cr_elapsed>>

\* what wait_for's timeout does to the subprocess: communicate() is cancelled,
\* nothing signals the process
Abandoned(process) == process

\* `except asyncio.TimeoutError`: wait_for gave up after build_timeout
BuildTimedOut ==
    /\ cr_pc = "waiting"
    /\ cr_elapsed = build_timeout
    /\ cr_procs[Len(cr_procs)].state = "running"
    /\ cr_procs' = [cr_procs EXCEPT ![Len(cr_procs)] = Abandoned(@)]
    /\ AfterBuild([success |-> FALSE, error |-> "Build timed out"], cr_response, cr_branch,
                  cr_calls, cr_writes)
    /\ UNCHANGED <<bmvars, storevars, thvars, orchvars, q_calls, work_items, rtvars, cr_tasks, cr_task,
                   cr_repo, cr_branch, cr_response, cr_elapsed>>

CodeRepoNext ==
    \/ \E task \in CodeTasks : CodeProcessTask(task)
    \/ CodeThought
    \/ BuildTick
    \/ \E i \in 1..MaxCodeTasks, code \in {0, 1} : MvnExits(i, code)
    \/ BuildFinished
    \/ BuildTimedOut

\* the code repository agent serving tasks one at a time
SpecCodeRepo == Init /\ [][CodeRepoNext]_vars

\* the same, with time passing and the timeout firing when it is due
SpecCodeRepoFair == SpecCodeRepo /\ WF_vars(BuildTick) /\ WF_vars(BuildTimedOut) /\ WF_vars(BuildFinished)

(***************************************************************************)
(* Claims about the build monitor's retry budget                           *)
(***************************************************************************)

\* the originally monitored build at the head of the chain of retries b belongs to
RECURSIVE RootBuild(_)
RootBuild(b) == IF retry_of[b] = 0 THEN b ELSE RootBuild(retry_of[b])

\* the retry builds queued on behalf of r, retries of its retries included
RetriesQueuedFor(r) == {b \in BuildIds : b # r /\ RootBuild(b) = r}

MaxRetriesExceeded ==
    [success |-> FALSE, error |-> <<"Max retries exceeded">>,
     action_needed |-> "manual_intervention"]

\* C1: starting from a monitored build with retry_count 0, the k-th consecutive
\* retry_build task naming that build (k <= max_retries) whose get_build and
\* queue_build succeed returns success with retry_count k and queues a build; the
\* task after the max_retries-th is rejected with "Max retries exceeded",
\* action_needed "manual_intervention", and queues no build.
C1_RetryBudget ==
    streak.n >= 1 =>
        IF streak.n <= max_retries
        THEN /\ bm_queued # 0
             /\ bm_return = [success |-> TRUE, original_build_id |-> streak.id,
                             new_build_id |-> bm_queued, retry_count |-> streak.n]
        ELSE /\ bm_queued = 0
             /\ bm_return = MaxRetriesExceeded

\* C1 witness: all max_retries (>= 1) retries succeeded and one more was rejected
C1_Witness ==
    /\ max_retries >= 1
    /\ streak.n = max_retries + 1
    /\ bm_return = MaxRetriesExceeded
    /\ Cardinality(RetriesQueuedFor(streak.id)) = max_retries

\* C2: in every reachable state the number of retry builds queued on behalf of
\* one originally monitored build, counting retries of its retried builds, is at
\* most max_retries.
C2_AtMostMaxRetries ==
    \A r \in BuildIds :
        retry_of[r] = 0 => Cardinality(RetriesQueuedFor(r)) <= max_retries

(***************************************************************************)
(* Claims about Agent.think                                                *)
(***************************************************************************)

\* rows of agent_actions written since the think call in progress started
ThinkRecords == SubSeq(actions, th_mark.act + 1, Len(actions))

\* conversation entries this agent session stored since the call started
ThinkConversations ==
    {i \in (th_mark.mem + 1)..Len(memory) :
        /\ memory[i].memory_type = "conversation"
        /\ memory[i].agent_id = self_agent_id
        /\ memory[i].session_id = self_session_id}

Occurred(name) == \E i \in 1..Len(th_events) : th_events[i].event = name

ThinkFailureRecords ==
    {i \in 1..Len(ThinkRecords) :
        /\ ThinkRecords[i].action_type = "think"
        /\ ThinkRecords[i].success = FALSE
        /\ ThinkRecords[i].agent_id = self_agent_id
        /\ ThinkRecords[i].session_id = self_session_id}

\* C3: when llm.generate raised during a think call, think raises that same
\* error, and by then exactly one action-log record with action_type "think" and
\* success=false exists for the call (for this agent_id and session_id), none
\* with success=true, and no conversation entry was stored for the call.
C3_GenerateFailureLogged ==
    (th_pc = "raised" /\ Occurred("generate_raised")) =>
        /\ \E i \in 1..Len(th_events) :
              th_events[i] = Event("generate_raised", th_error)
        /\ Cardinality(ThinkFailureRecords) = 1
        /\ \A i \in 1..Len(ThinkRecords) : ThinkRecords[i].success = FALSE
        /\ ThinkConversations = {}

\* C3 witness: a think call raised the LLM's ConnectError after logging the failure
C3_Witness ==
    /\ th_pc = "raised"
    /\ Occurred("generate_raised")
    /\ th_error = "ConnectError"
    /\ Len(ThinkRecords) = 1
    /\ ThinkRecords[1].result = [error |-> "ConnectError"]

\* C4: every think call that has finished, by returning or by raising, wrote
\* exactly one action-log record, whatever the outcomes of the recent-memory
\* read, the generate call, the conversation write and the action-log write.
C4_ExactlyOneRecord ==
    th_pc \in {"returned", "raised"} => Len(ThinkRecords) = 1

\* C5: when think returns a response, generate succeeded, then exactly one
\* conversation entry pairing the user message with the response content was
\* stored, then one action-log record with success=true was written, in this
\* order; no record of the call has success=false.
C5_SuccessOrder ==
    th_pc = "returned" =>
        /\ th_response \in Responses
        /\ th_events = <<Event("read", None), Event("generate_returned", None),
                         Event("conversation_stored", None),
                         Event("logged_success", None)>>
        /\ Cardinality(ThinkConversations) = 1
        /\ \A i \in ThinkConversations :
              memory[i].content =
                  <<"User: ">> \o th_msg \o <<"\nAssistant: ">> \o th_response.content
        /\ Len(ThinkRecords) = 1
        /\ \A i \in 1..Len(ThinkRecords) :
              ThinkRecords[i].action_type = "think" /\ ThinkRecords[i].success = TRUE

\* C5 witness: think returned a response built over remembered context
C5_Witness ==
    /\ th_pc = "returned"
    /\ th_recent # <<>>
    /\ Cardinality(ThinkConversations) = 1
    /\ Len(ThinkRecords) = 1

\* the rows of this agent_id and session_id stored before the call and less
\* than 24 hours old when it started
C6_Eligible ==
    {i \in 1..th_mark.mem :
        /\ memory[i].agent_id = self_agent_id
        /\ memory[i].session_id = self_session_id
        /\ memory[i].timestamp > th_start - 24}

\* one "- <first 200 characters of content>" line per row, joined by newlines
RECURSIVE C6_Bullets(_)
C6_Bullets(rows) ==
    IF rows = <<>> THEN <<>>
    ELSE LET c == Head(rows).content
             line == <<"- ">> \o SubSeq(c, 1, IF Len(c) < 200 THEN Len(c) ELSE 200)
         IN IF Len(rows) = 1 THEN line ELSE line \o <<"\n">> \o C6_Bullets(Tail(rows))

\* one "key: value" line per item of the context, joined by newlines
RECURSIVE C6_KeyValueLines(_)
C6_KeyValueLines(ctx) ==
    IF ctx = <<>> THEN <<>>
    ELSE LET line == <<Head(ctx)[1], ": ", Head(ctx)[2]>>
         IN IF Len(ctx) = 1 THEN line ELSE line \o <<"\n">> \o C6_KeyValueLines(Tail(ctx))

\* C6: the messages think passes to the LLM are, in order: the system prompt;
\* if the store returned any memory, one system message listing at most 5
\* entries of the at most 10 newest memories of this agent_id and session_id
\* from the last 24 hours; if the context is not empty, one system message with
\* its items as "key: value" lines; the user message unchanged.  No memory of
\* another agent or session is listed.
C6_MessageSequence ==
    (th_pc # "idle" /\ Occurred("read")) =>
        LET n == Len(th_recent)
            shown == SubSeq(th_recent, 1, IF n < 5 THEN n ELSE 5)
        IN
        /\ n = (IF Cardinality(C6_Eligible) < 10 THEN Cardinality(C6_Eligible) ELSE 10)
        /\ \A k \in 1..n :
              Cardinality({j \in 1..n : th_recent[j] = th_recent[k]})
                 <= Cardinality({i \in C6_Eligible : memory[i] = th_recent[k]})
        /\ \A j, k \in 1..n : j < k => th_recent[j].timestamp >= th_recent[k].timestamp
        /\ \A i \in C6_Eligible, k \in 1..n :
              (\A j \in 1..n : th_recent[j] # memory[i])
                 => memory[i].timestamp <= th_recent[k].timestamp
        /\ th_messages =
              <<[role |-> "system", content |-> system_prompt]>>
              \o (IF C6_Eligible # {}
                  THEN <<[role |-> "system",
                          content |-> <<"Recent context:\n">> \o C6_Bullets(shown)]>>
                  ELSE <<>>)
              \o (IF th_ctx # <<>>
                  THEN <<[role |-> "system",
                          content |-> <<"Context:\n">> \o C6_KeyValueLines(th_ctx)]>>
                  ELSE <<>>)
              \o <<[role |-> "user", content |-> th_msg]>>

\* C6 witness: a call with a context, made when the store holds more than 5
\* eligible memories, a memory of this session older than 24 hours and a recent
\* memory of another session of the same agent
C6_Witness ==
    /\ th_pc = "llm"
    /\ th_ctx # <<>>
    /\ Cardinality(C6_Eligible) > 5
    /\ Len(th_messages) = 4
    /\ \E i \in 1..th_mark.mem :
          /\ memory[i].agent_id = self_agent_id
          /\ memory[i].session_id = self_session_id
          /\ memory[i].timestamp <= th_start - 24
    /\ \E i \in 1..th_mark.mem :
          /\ memory[i].agent_id = self_agent_id
          /\ memory[i].session_id # self_session_id
          /\ memory[i].timestamp > th_start - 24

(***************************************************************************)
(* Claims about OrchestratorAgent.process_task                             *)
(***************************************************************************)

HandlerTypes == {"implement_story", "split_feature", "create_release"}

\* the exceptions collaborators raised inside the try block during this call
RaisedInHandler == {o_calls[i].raised : i \in {j \in 1..Len(o_calls) : Has(o_calls[j], "raised")}}

\* calls of a registered agent's process_task made during this call
AgentsInvoked == {i \in 1..Len(o_calls) : Has(o_calls[i], "agent")}

\* "result" entries stored since this call started
ResultEntries ==
    {i \in (o_mark.mem + 1)..Len(memory) : memory[i].memory_type = "result"}

\* C7: process_task with a type other than implement_story, split_feature and
\* create_release (a missing type included) returns success=false with an error
\* text that contains the supplied type; it does not raise and calls neither
\* the LLM nor the work-tracking client nor a registered agent.
C7_UnknownTaskType ==
    (o_pc = "done" /\ Get(o_task, "type") \notin HandlerTypes) =>
        /\ DOMAIN o_return = {"success", "error"}
        /\ Has(o_return, "success") /\ o_return.success = FALSE
        /\ Has(o_return, "error")
        /\ \E i \in 1..Len(o_return.error) : o_return.error[i] = Get(o_task, "type")
        /\ o_calls = <<>>
        /\ th_pc = "idle"

\* C7 witness: {"type": "bogus"} was answered while agents were registered
C7_Witness ==
    /\ o_pc = "done"
    /\ Get(o_task, "type") = "bogus"
    /\ Registered("requirements")
    /\ o_return = [success |-> FALSE, error |-> <<"Unknown task type: ", "bogus">>]

\* C8: process_task never lets an exception reach its caller: every finished
\* call returned a mapping with a success field, whichever collaborator failed
\* (store failures in the observation and decision writes and in the failure
\* record included).
C8_NeverRaises ==
    o_pc = "done" => (~Has(o_return, "raised") /\ Has(o_return, "success"))

\* C9: when a handler raised e, process_task stored exactly one "result" entry
\* describing the failure and returned {success: false, error: str(e)}, a
\* mapping of the same keys as the answer to an unknown task type.
C9_HandlerFailure ==
    (o_pc = "done" /\ RaisedInHandler # {}) =>
        /\ Get(o_task, "type") \in HandlerTypes
        /\ Cardinality(RaisedInHandler) = 1
        /\ \A e \in RaisedInHandler :
              /\ o_return = [success |-> FALSE, error |-> <<e>>]
              /\ Cardinality(ResultEntries) = 1
              /\ \A i \in ResultEntries : memory[i].content = <<"Task failed: ", e>>

\* C9 witness: a code agent raised during an implement_story task
C9_Witness ==
    /\ o_pc = "done"
    /\ Get(o_task, "type") = "implement_story"
    /\ RaisedInHandler = {"AgentError"}
    /\ Len(o_calls) >= 4
    /\ o_return = [success |-> FALSE, error |-> <<"AgentError">>]

\* C10: with no agent registered as "requirements", an implement_story task
\* whose work item was found and whose analysis think returned answers
\* success=true with the analysis text and without the fields requirements and
\* code_results, and no registered agent was invoked.
C10_GracefulDegradation ==
    (/\ o_pc = "done"
     /\ Get(o_task, "type") = "implement_story"
     /\ o_found
     /\ th_pc = "returned"
     /\ active_agents["requirements"] = 0) =>
        /\ o_return = [success |-> TRUE, story_id |-> o_task.story_id,
                       analysis |-> th_response.content]
        /\ ~Has(o_return, "requirements")
        /\ ~Has(o_return, "code_results")
        /\ AgentsInvoked = {}

\* C10 witness: only a code-repository agent was registered
C10_Witness ==
    /\ o_pc = "done"
    /\ Get(o_task, "type") = "implement_story"
    /\ active_agents["requirements"] = 0
    /\ active_agents["code_repo_api"] # 0
    /\ Has(o_return, "analysis")
    /\ o_return.success = TRUE

\* the repositories a requirements result names as affected: RequirementsAgent
\* puts the list inside "requirements"; other agents may put it at the top level
NamedRepos(result) ==
    LET list == IF Has(result, "requirements") THEN result.requirements.affected_repos
                ELSE IF Has(result, "affected_repos") THEN result.affected_repos
                ELSE <<>>
    IN {list[i] : i \in 1..Len(list)}

\* process_task calls made to the code agent of repository r during this call
CodeAgentCalls(r) ==
    {i \in 1..Len(o_calls) : Has(o_calls[i], "agent") /\ o_calls[i].agent = CodeAgentId(r)}

\* C11: when an implement_story task went through the requirements agent, each
\* repository its result names as affected whose code agent was registered had
\* that agent's process_task called exactly once, with type "implement", and
\* code_results holds one result per call; no other code agent was called.
C11_DelegatesToNamedRepos ==
    (/\ o_pc = "done"
     /\ Get(o_task, "type") = "implement_story"
     /\ Has(o_return, "code_results")) =>
        /\ \A r \in Repos :
              IF r \in NamedRepos(o_return.requirements)
                 /\ o_mark.agents[CodeAgentId(r)] # 0
              THEN /\ Cardinality(CodeAgentCalls(r)) = 1
                   /\ \A i \in CodeAgentCalls(r) : o_calls[i].task.type = "implement"
              ELSE CodeAgentCalls(r) = {}
        /\ Len(o_return.code_results)
              = Cardinality(UNION {CodeAgentCalls(r) : r \in Repos})

\* C12: a create_release task processed while no agent is registered under
\* "release_manager" returns exactly {success: false, error: "Release manager
\* agent not available"}; it does not raise and calls neither an agent nor the LLM.
C12_NoReleaseManager ==
    (/\ o_pc = "done"
     /\ Get(o_task, "type") = "create_release"
     /\ o_mark.agents["release_manager"] = 0) =>
        /\ o_return = [success |-> FALSE,
                       error |-> <<"Release manager agent not available">>]
        /\ AgentsInvoked = {}
        /\ o_calls = <<>>
        /\ th_pc = "idle"

\* C12 witness: the task was answered while other agents were registered
C12_Witness ==
    /\ o_pc = "done"
    /\ Get(o_task, "type") = "create_release"
    /\ o_mark.agents["release_manager"] = 0
    /\ o_mark.agents["requirements"] # 0
    /\ o_mark.agents["code_repo_api"] # 0
    /\ Has(o_return, "success")

\* C13: after any sequence of register_agent calls the registry holds, under
\* each agent id, the instance most recently registered with that id (one
\* entry per id: the registry is a mapping), and nothing under an id never
\* registered; a later registration under one id replaces the earlier one and
\* leaves the other ids' entries as their own last registrations.
C13_LastRegistrationWins ==
    \A id \in AgentIds :
        /\ active_agents[id] = reg_history[id].last
        /\ (active_agents[id] = 0) = (reg_history[id].seen = {})

\* C13 witness: instance 2 replaced instance 1 under "requirements" while
\* "release_manager" still holds the only instance registered for it
C13_Witness ==
    /\ reg_history["requirements"].seen = {1, 2}
    /\ active_agents["requirements"] = 2
    /\ reg_history["release_manager"].seen = {1}
    /\ active_agents["release_manager"] = 1

\* C14: the registry is changed only by register_agent: every step of a
\* process_task or handle_message call, whether the call ends in success, in
\* a structured failure or with a collaborator raising, leaves the registered
\* ids and the agent bound to each id unchanged.
C14_OnlyRegisterAgentChangesRegistry ==
    [][(active_agents' # active_agents) =>
          \E id \in AgentIds, instance \in 1..MaxInstances : RegisterAgent(id, instance)]_vars

\* a call has ended with the registry as it was when the call began
CallEndedWith(kind) ==
    /\ o_pc = "done"
    /\ kind \in DOMAIN o_return
    /\ active_agents = o_mark.agents
    /\ \E id \in AgentIds : active_agents[id] # 0

\* C14 witness: a process_task call in which a collaborator raised has ended in
\* a structured failure, with agents registered
C14_Witness ==
    /\ CallEndedWith("error")
    /\ RaisedInHandler # {}
    /\ Has(o_task, "type")

\* C14 second witness: a handle_message call returned its text
C14_WitnessMessage ==
    /\ CallEndedWith("text")
    /\ Has(o_task, "message")

\* a process_task result carries the envelope: a boolean success flag, and an
\* error text whenever the flag is false
Enveloped(result) ==
    /\ Has(result, "success")
    /\ result.success \in BOOLEAN
    /\ (result.success = FALSE) => Has(result, "error")

\* C15: every result returned by process_task (here: of the build monitor, for
\* monitor_pr_build and retry_build tasks) carries an explicit boolean success
\* flag, and every result with success false also carries an error text.
C15_ResultEnvelope ==
    (mon_pc = "idle" /\ bm_return # NoResult /\ ~Has(bm_return, "raised")) =>
        Enveloped(bm_return)

(***************************************************************************)
(* Claims about the Event Store's queries                                  *)
(***************************************************************************)

\* how many times the entry e occurs in the sequence of entries
Occurrences(entries, e) == Cardinality({k \in 1..Len(entries) : entries[k] = e})

\* result is made of the limit newest of the rows S of agent_memory, in
\* non-increasing timestamp order (the empty list when S is empty)
NewestOf(result, S, limit) ==
    /\ Len(result) = Min(limit, Cardinality(S))
    /\ \A k \in 1..(Len(result) - 1) : result[k].timestamp >= result[k + 1].timestamp
    /\ \A k \in 1..Len(result) :
          Occurrences(result, result[k]) <= Cardinality({i \in S : memory[i] = result[k]})
    /\ \A i \in S :
          (Len(result) > 0 /\ memory[i].timestamp > result[Len(result)].timestamp) =>
              Occurrences(result, memory[i]) = Cardinality({j \in S : memory[j] = memory[i]})

\* the rows a get_recent_memories call is to draw from: those of the agent,
\* of age at most the window, matching every filter supplied
RowsOfAgeAtMost(q) ==
    {i \in 1..Len(memory) :
        /\ memory[i].agent_id = q.agent_id
        /\ q.at - memory[i].timestamp <= q.hours
        /\ (q.memory_type # None => memory[i].memory_type = q.memory_type)
        /\ (q.session_id # None => memory[i].session_id = q.session_id)}

\* C16: get_recent_memories returns only entries of the agent whose age is at
\* most H hours and that match every supplied filter, newest first, at most
\* limit of them, the newest such entries, and the empty list when nothing
\* matches.
C16_RecentMemories ==
    \A k \in 1..Len(q_calls) :
        q_calls[k].op = "get_recent_memories" =>
            NewestOf(q_calls[k].result, RowsOfAgeAtMost(q_calls[k]), q_calls[k].limit)

\* a character with its case ignored: capitals as small letters, accented ones too
CaseFold(c) == IF c = "U+00C9" THEN "U+00E9" ELSE AsciiLower(c)

\* content contains query as a substring, ignoring case
ContainsIgnoringCase(content, query) ==
    \E i \in 1..(Len(content) - Len(query) + 1) :
        \A j \in 1..Len(query) : CaseFold(content[i + j - 1]) = CaseFold(query[j])

\* the rows a search_memories call is to draw from
RowsContaining(q) ==
    {i \in 1..Len(memory) :
        /\ memory[i].agent_id = q.agent_id
        /\ ContainsIgnoringCase(memory[i].content, q.query)}

\* C17: search_memories returns exactly the entries of the agent whose content
\* contains the query as a substring ignoring case, cut to the limit newest,
\* newest first, and the empty list when none match; entries of other agents
\* and entries without the query are never returned.
C17_SearchMemories ==
    \A k \in 1..Len(q_calls) :
        q_calls[k].op = "search_memories" =>
            NewestOf(q_calls[k].result, RowsContaining(q_calls[k]), q_calls[k].limit)

\* the get_agent_statistics calls answered since the last write
StatisticsCalls == {k \in 1..Len(q_calls) : q_calls[k].op = "get_agent_statistics"}

\* the records of the bucket action_type of the call q: those of the agent,
\* inside the window when the call was made, of that type
BucketRecords(q, action_type) ==
    {i \in 1..Len(actions) :
        /\ actions[i].agent_id = q.agent_id
        /\ actions[i].timestamp > q.at - q.hours
        /\ actions[i].action_type = action_type}

\* C18: for every agent, every window and every action_type bucket returned
\* by get_agent_statistics, count = successful + failed, successful being the
\* number of records of the bucket with success true and failed the number
\* with success false.
C18_CountIsSuccessfulPlusFailed ==
    \A k \in StatisticsCalls :
        \A t \in DOMAIN q_calls[k].result :
            LET b == q_calls[k].result[t]
                records == BucketRecords(q_calls[k], t)
            IN /\ b.count = b.successful + b.failed
               /\ b.successful = Cardinality({i \in records : actions[i].success = TRUE})
               /\ b.failed = Cardinality({i \in records : actions[i].success = FALSE})

\* C18 witness: a bucket returned with successful and failed records in it
C18_Witness ==
    \E k \in StatisticsCalls :
        \E t \in DOMAIN q_calls[k].result :
            /\ q_calls[k].result[t].successful >= 1
            /\ q_calls[k].result[t].failed >= 1
            /\ q_calls[k].result[t].count = MaxStoredRows

\* two get_agent_statistics calls for the same agent and the same window,
\* one after the other with no write between them
SameCallTwice ==
    /\ Len(q_calls) = 2
    /\ StatisticsCalls = {1, 2}
    /\ q_calls[1].agent_id = q_calls[2].agent_id
    /\ q_calls[1].hours = q_calls[2].hours

\* the records inside the window of the call q when it was made
WindowRecords(q) ==
    {i \in 1..Len(q.before) :
        /\ q.before[i].agent_id = q.agent_id
        /\ q.before[i].timestamp > q.at - q.hours}

\* the two calls returned identical mappings and changed no stored record
IdenticalAndReadOnly ==
    /\ q_calls[1].result = q_calls[2].result
    /\ q_calls[1].before = q_calls[2].before
    /\ q_calls[2].before = actions

RecordsYounger(q, action_type) ==
    {i \in 1..Len(actions) :
        /\ actions[i].agent_id = q.agent_id
        /\ actions[i].action_type = action_type
        /\ q.at - actions[i].timestamp < q.hours}
RecordsNotOlder(q, action_type) ==
    {i \in 1..Len(actions) :
        /\ actions[i].agent_id = q.agent_id
        /\ actions[i].action_type = action_type
        /\ q.at - actions[i].timestamp <= q.hours}

\* C20: get_agent_statistics aggregates only records of the agent whose
\* timestamp lies within the trailing window of the given hours, grouped by
\* action_type: a bucket counts every record of its type younger than the
\* window and none older than it or of another agent, a type without a record
\* in the window has no bucket, and an agent with no record in the window gets
\* the empty mapping.
C20_OnlyAgentAndWindow ==
    \A k \in StatisticsCalls :
        LET q == q_calls[k]
            types == {actions[i].action_type : i \in 1..Len(actions)}
        IN /\ DOMAIN q.result \subseteq types
           /\ \A t \in types :
                 IF t \in DOMAIN q.result
                 THEN /\ q.result[t].count >= 1
                      /\ q.result[t].count >= Cardinality(RecordsYounger(q, t))
                      /\ q.result[t].count <= Cardinality(RecordsNotOlder(q, t))
                 ELSE RecordsYounger(q, t) = {}
           /\ (\A t \in types : RecordsNotOlder(q, t) = {}) => q.result = <<>>

\* C20 witness: a call answered with one bucket while the table also holds a
\* record of the agent older than the window and a record of another agent
\* inside it
C20_Witness ==
    \E k \in StatisticsCalls :
        LET q == q_calls[k]
        IN /\ Cardinality(DOMAIN q.result) = 1
           /\ \E i \in 1..Len(actions) :
                 actions[i].agent_id = q.agent_id /\ q.at - actions[i].timestamp > q.hours
           /\ \E i \in 1..Len(actions) :
                 actions[i].agent_id # q.agent_id /\ q.at - actions[i].timestamp < q.hours

(***************************************************************************)
(* Claims about stored work items and stored entries                       *)
(***************************************************************************)

\* the get_work_item calls answered since the last write
WorkItemCalls == {k \in 1..Len(q_calls) : q_calls[k].op = "get_work_item"}

\* the rows written for the id, in the order they were written
WrittenFor(work_item_id) ==
    {i \in 1..Len(work_items) : work_items[i].work_item_id = work_item_id}

\* result shows the snapshot written by row i
ShowsSnapshot(result, i) ==
    /\ result # NoDict
    /\ result.item_type = work_items[i].item_type
    /\ result.title = work_items[i].title
    /\ result.description = work_items[i].description
    /\ result.state = work_items[i].state
    /\ result.assigned_agent = work_items[i].assigned_agent
    /\ result.metadata = IF work_items[i].metadata_given = NoDict THEN EmptyDict
                         ELSE work_items[i].metadata_given

\* C21: get_work_item after store_work_item returns the fields written; after
\* a second store_work_item for the same id it returns the second snapshot
\* and never the first, also when both writes fall in the same timestamp
\* tick; for an id never written it returns None.
C21_LastWriteWins ==
    \A k \in WorkItemCalls :
        LET written == WrittenFor(q_calls[k].work_item_id)
        IN IF written = {} THEN q_calls[k].result = NoDict
           ELSE ShowsSnapshot(q_calls[k].result, CHOOSE i \in written : \A o \in written : o <= i)

\* C22: no Event Store operation (store_memory, log_action, store_work_item,
\* get_recent_memories, search_memories, get_agent_statistics, get_work_item)
\* changes or removes a stored memory entry or action log record: in every
\* step the two tables keep every row they held, as it was.
C22_StoredRowsOnlyGrow ==
    [][/\ Len(memory') >= Len(memory)
       /\ SubSeq(memory', 1, Len(memory)) = memory
       /\ Len(actions') >= Len(actions)
       /\ SubSeq(actions', 1, Len(actions)) = actions]_vars

\* C22 witness: all three tables hold rows, two of them of agent_memory, and
\* two queries have been answered since the last write
C22_Witness ==
    /\ Len(memory) >= 2
    /\ Len(actions) >= 1
    /\ Len(work_items) >= 1
    /\ Len(q_calls) = 2

(***************************************************************************)
(* Claims about what an agent writes                                       *)
(***************************************************************************)

\* the place of the entry e in agent_memory: its rank in the order of the
\* store_memory calls (the entries of one session differ in their content)
CallRank(e) == CHOOSE i \in 1..Len(memory) : memory[i] = e

\* C23: within one agent's session, a get_recent_memories that returns two
\* entries lists the one written later first: entries are read back in the
\* reverse of their call order, also when two writes receive equal
\* timestamps.
C23_ReverseCallOrder ==
    \A k, l \in 1..Len(th_recent) :
        k < l => CallRank(th_recent[k]) > CallRank(th_recent[l])

\* C24: the agent's session_id is the one given at construction, and every
\* memory entry and every action log record the agent writes through think,
\* observe, decide, record_action and record_result carries the agent's
\* agent_id and that session_id (the agent is the only writer here).
C24_CarriesAgentAndSession ==
    /\ \A i \in 1..Len(memory) :
          memory[i].agent_id = self_agent_id /\ memory[i].session_id = self_session_id
    /\ \A i \in 1..Len(actions) :
          actions[i].agent_id = self_agent_id /\ actions[i].session_id = self_session_id

\* C24 witness: the agent has written an entry of each of the five memory
\* types and an action log record
C24_Witness ==
    /\ {"observation", "decision", "conversation", "action", "result"}
          \subseteq {memory[i].memory_type : i \in 1..Len(memory)}
    /\ Len(actions) >= 1

\* the calls of observe, decide, record_action and record_result answered last
RecordingCalls == {k \in 1..Len(q_calls) : q_calls[k].op \in RecordingMethods}

C25_WitnessFailure ==
    \E k \in RecordingCalls :
        /\ q_calls[k].op = "decide"
        /\ ~q_calls[k].store_ok
        /\ q_calls[k].before.mem >= 1

(***************************************************************************)
(* Claims about the code repository agent's build step                     *)
(***************************************************************************)

\* the wait for the subprocess is at its deadline and the subprocess still runs
BuildOverdue ==
    /\ cr_pc = "waiting"
    /\ cr_elapsed = build_timeout
    /\ cr_procs[Len(cr_procs)].state = "running"

\* C26: when the build-and-test subprocess has not finished within
\* build_timeout, the step that ends the wait terminates the build (the
\* subprocess no longer runs), returns {success: false, error: "Build timed
\* out"} from the build step, and starts no further subprocess.
C26_TimeoutTerminatesBuild ==
    [][(BuildOverdue /\ cr_pc' # "waiting") =>
          /\ cr_build' = [success |-> FALSE, error |-> "Build timed out"]
          /\ Len(cr_procs') = Len(cr_procs)
          /\ cr_procs'[Len(cr_procs')].state # "running"]_vars

\* the task types CodeRepositoryAgent.process_task dispatches on
CodeTaskTypes == {"implement", "fix_build"}

\* C27: process_task with a type the agent does not recognise returns
\* {success: false, error: ...} without raising and without a call to the LLM,
\* to work tracking or to version control.
C27_UnknownTypeFailsQuietly ==
    (cr_pc = "done" /\ Get(cr_task, "type") \notin CodeTaskTypes) =>
        /\ Has(cr_return, "success") /\ ~cr_return.success
        /\ Has(cr_return, "error")
        /\ cr_calls = <<>>

\* C28: a collaborator failing during a recognised task (the LLM client raising
\* inside think, a version-control call raising) does not reach the caller of
\* process_task: the call returns {success: false, error: ...}.
C28_CollaboratorFailureIsReturned ==
    (cr_pc = "done" /\ Get(cr_task, "type") \in CodeTaskTypes) =>
        /\ ~Has(cr_return, "raised")
        /\ Has(cr_return, "success")
        /\ (~cr_return.success => Has(cr_return, "error"))

(***************************************************************************)
(* Claims about handle_message and the delegation loop                     *)
(***************************************************************************)

\* process_task began in the current call: its first statement,
\* `await self.observe(f"Received task: {task_type}")`, left its entry
TaskReceived ==
    \E i \in (o_mark.mem + 1)..Len(memory) :
        /\ memory[i].agent_id = self_agent_id
        /\ memory[i].memory_type = "observation"
        /\ memory[i].content[1] = "Received task: "

\* the id a handled message names
IdOf(message) == message[Len(message)]

\* the text mentions the id
Mentions(text, id) == \E i \in 1..Len(text) : text[i] = id

\* C29: when handle_message returns for a message that names a recognised
\* command with its id, process_task was invoked for the command during the
\* call and the returned text contains the id.
C29_MessageRunsTask ==
    (o_pc = "done" /\ Has(o_task, "message") /\ Has(o_return, "text")) =>
        /\ TaskReceived
        /\ Mentions(o_return.text, IdOf(o_task.message))

\* the delegated process_task calls the current call has started, in order
DelegatedCalls == SelectSeq(o_calls, LAMBDA c : Has(c, "agent"))
CodeCalls == SelectSeq(DelegatedCalls, LAMBDA c : c.agent # "requirements")

\* the delegated calls that have ended: by a result or by the agent's exception
AgentFailures == SelectSeq(o_calls, LAMBDA c : Has(c, "raised") /\ c.raised = AgentRaised.raised)
ReturnedCalls ==
    Len(o_code_results) + (IF o_req_result # EmptyDict THEN 1 ELSE 0) + Len(AgentFailures)
InFlight == Len(DelegatedCalls) - ReturnedCalls

\* the code agents of the repositories of the analysis, in its order, those
\* without an agent registered during the call left out
AnalysisRepos ==
    IF Has(o_req_result, "affected_repos") THEN o_req_result.affected_repos ELSE <<>>
AnalysisAgents ==
    SelectSeq([i \in 1..Len(AnalysisRepos) |-> CodeAgentId(AnalysisRepos[i])],
              LAMBDA id : o_mark.agents[id] # 0)

\* the calls started so far follow the analysis, and each result but the one
\* awaited is in
FollowsAnalysis ==
    /\ Len(CodeCalls) <= Len(AnalysisAgents)
    /\ \A i \in 1..Len(CodeCalls) : CodeCalls[i].agent = AnalysisAgents[i]
    /\ Len(o_code_results) <= Len(CodeCalls)
    /\ Len(CodeCalls) <= Len(o_code_results) + 1

\* C30: in the implement_story delegation loop at most one delegated
\* process_task call is in flight; no code agent is invoked before the
\* requirements agent's result is in; the code agents are invoked one after the
\* other in the order of the repositories of the analysis; each result is
\* appended behind the earlier ones, and the returned code_results holds one
\* result per invoked agent in that order.
C30_OneDelegationAtATime ==
    /\ [](Get(o_task, "type") = "implement_story" =>
            /\ InFlight \in {0, 1}
            /\ (CodeCalls # <<>> => o_req_result # EmptyDict)
            /\ (o_pc = "await_code" => InFlight = 1)
            /\ FollowsAnalysis
            /\ (Has(o_return, "code_results") =>
                    /\ o_return.code_results = o_code_results
                    /\ Len(o_code_results) = Len(AnalysisAgents)
                    /\ InFlight = 0))
    /\ [][o_code_results' # o_code_results /\ o_code_results' # <<>> =>
            /\ InFlight = 1
            /\ \E result \in CodeResults : o_code_results' = Append(o_code_results, result)]_vars

\* C30 witness: an implement_story call returned two different results of two
\* code agents, invoked in the order of the analysis
C30_Witness ==
    /\ o_pc = "done"
    /\ Has(o_return, "code_results")
    /\ Len(o_return.code_results) = 2
    /\ o_return.code_results[1] # o_return.code_results[2]
    /\ Len(DelegatedCalls) = 3
    /\ DelegatedCalls[1].agent = "requirements"

(***************************************************************************)
(* Claims about the build monitor's tasks                                  *)
(***************************************************************************)

\* the concurrently scheduled tasks that passed the budget check and queued a build
RacePassed == {t \in RaceTasks : Has(rt_results[t], "new_build_id")}

\* the retries the tracking dict of the named build had used when the tasks
\* were scheduled
UsedWhenScheduled ==
    IF monitored_builds[rt_build] = 0 THEN 0 ELSE rt_info[monitored_builds[rt_build]].retry_count

\* C31: under every interleaving of concurrently scheduled retry_build tasks
\* for one build on one agent, the tasks that pass the budget check and queue a
\* build never outnumber the budget that was left: with the retries already
\* counted they stay within max_retries, and each passing task got its own count.
C31_NoDoubleSpend ==
    rt_build # 0 =>
        /\ Cardinality(RacePassed) + UsedWhenScheduled <= max_retries
        /\ \A t, u \in RacePassed :
              t # u => rt_results[t].retry_count # rt_results[u].retry_count

\* C31 witness: three tasks ran for a build with two retries left; two queued a
\* build and the third was rejected
C31_Witness ==
    /\ rt_build # 0
    /\ \A t \in RaceTasks : rt_pc[t] = "done"
    /\ UsedWhenScheduled = 0
    /\ Cardinality(RacePassed) = 2
    /\ max_retries = 2
    /\ \E t \in RaceTasks : Has(rt_results[t], "action_needed")

\* the retry count a retry_build task naming b would read
CountSeenFor(b) == TrackedInfo(b).retry_count

\* C32: a tracked build produced by retrying shares the counter of the
\* originally monitored build of its chain, and that counter is the number of
\* retries made in the chain; so once the chain has used max_retries retries,
\* retry_build is rejected for every build of the chain.
C32_OneCounterPerChain ==
    \A b \in BuildIds :
        (monitored_builds[b] # 0 /\ monitored_builds[RootBuild(b)] # 0) =>
            /\ CountSeenFor(b) = CountSeenFor(RootBuild(b))
            /\ CountSeenFor(b) = Cardinality(RetriesQueuedFor(RootBuild(b)))
            /\ (Cardinality(RetriesQueuedFor(RootBuild(b))) >= max_retries =>
                    RetryBudgetExhausted(TrackedInfo(b)))

\* the four answers of a rejected retry_build task
RetryRejections ==
    {[success |-> FALSE, error |-> <<"Build not being monitored">>],
     MaxRetriesExceeded,
     [success |-> FALSE, error |-> <<"Original build not found">>],
     [success |-> FALSE, error |-> <<"Failed to queue retry build">>]}

\* a step in which a retry_build (a task, or the one _monitor_pr_build runs for
\* an intermittent failure) returns
RetryReturns == mon_pc \in {"idle", "thinking"} /\ mon_pc' = "idle" /\ bm_return' # NoResult

\* C33: a retry_build that is rejected (build not monitored, budget exhausted,
\* original build not found, queue_build returning nothing) leaves
\* monitored_builds as it was: no entry added, no retry_count changed, and no
\* build queued.
C33_RejectionLeavesTracking ==
    [][(RetryReturns /\ bm_return' \in RetryRejections) =>
          /\ monitored_builds' = monitored_builds
          /\ build_info' = build_info
          /\ ado_builds' = ado_builds]_vars

\* C33 witness: queue_build returned nothing for a tracked build with budget
\* left, and the count is still what it was after one earlier retry
C33_Witness ==
    /\ mon_pc = "idle"
    /\ bm_return = [success |-> FALSE, error |-> <<"Failed to queue retry build">>]
    /\ max_retries = 2
    /\ \E b \in BuildIds : monitored_builds[b] # 0 /\ TrackedInfo(b).retry_count = 1

\* a monitor_pr_build task has returned a result
MonitorReturned == mon_pc = "idle" /\ mon_seen # NoResult /\ ~Has(bm_return, "raised")

C34_WitnessCodeFix ==
    /\ MonitorReturned
    /\ mon_seen = [found |-> TRUE, result |-> "failed", intermittent |-> "False"]
    /\ bm_return.action_needed = "code_fix"

(***************************************************************************)
(* Claims about the code repository agent's implement task                 *)
(***************************************************************************)

\* where in the current task's collaborator calls a call was made (0: never)
CalledAt(call) ==
    IF \E i \in 1..Len(cr_calls) : cr_calls[i] = call
    THEN CHOOSE i \in 1..Len(cr_calls) : cr_calls[i] = call
    ELSE 0

\* the build step of the current task ended and did not report success
BuildFailed == cr_build # NoResult /\ ~cr_build.success

\* the mvn subprocess of the current build step ended with exit code 0
MvnSucceeded ==
    /\ cr_procs # <<>>
    /\ cr_procs[Len(cr_procs)] = [state |-> "exited", returncode |-> 0]

C35_WitnessGreen ==
    /\ cr_pc = "done"
    /\ Get(cr_task, "type") = "implement"
    /\ Has(cr_return, "pull_request")
    /\ cr_return.pull_request = [id |-> 7]
    /\ CalledAt("ado.create_pull_request") # 0

\* C36: a create_release task processed while an agent is registered under
\* "release_manager" invokes that agent's process_task exactly once, with type
\* create_release and the task's components and source_branch (an empty list
\* and "main" when the task names none), invokes no other agent, and returns
\* what the agent returned, also when that has success false.
C36_SingleReleaseDelegation ==
    (/\ o_pc = "done"
     /\ Get(o_task, "type") = "create_release"
     /\ o_mark.agents["release_manager"] # 0) =>
        /\ DelegatedCalls =
              <<[agent |-> "release_manager", instance |-> o_mark.agents["release_manager"],
                 task |-> [type |-> "create_release",
                           components |-> IF Has(o_task, "components")
                                          THEN o_task.components ELSE <<>>,
                           source_branch |-> IF Has(o_task, "source_branch")
                                             THEN o_task.source_branch ELSE "main"]]>>
        /\ (AgentFailures = <<>> => o_return \in ReleaseResults)

\* C36 witness: the release manager answered success false to a task naming no
\* components, and that answer was returned
C36_Witness ==
    /\ o_pc = "done"
    /\ o_task = [type |-> "create_release"]
    /\ o_mark.agents["release_manager"] # 0
    /\ o_mark.agents["requirements"] # 0
    /\ o_return = [success |-> FALSE, error |-> <<"No components specified">>]
    /\ Len(DelegatedCalls) = 1

\* an exception was raised inside the handler of the current call
HandlerRaised == \E i \in 1..Len(o_calls) : Has(o_calls[i], "raised")

\* C37: an implement_story task returns success true whenever the work item is
\* found, the analysis think succeeds and no delegated call raises, whatever the
\* success flags of the delegated results, which are embedded as they are; it
\* returns success false only when the work item is not found or an exception
\* was raised.
C37_DelegatedFailuresEmbedded ==
    (o_pc = "done" /\ Get(o_task, "type") = "implement_story"
        /\ ~Has(o_return, "raised")) =>
        /\ (o_found /\ ~HandlerRaised) =>
                /\ o_return.success
                /\ (o_mark.agents["requirements"] # 0 =>
                        /\ o_return.requirements = o_req_result
                        /\ o_return.code_results = o_code_results)
        /\ ~o_return.success => (~o_found \/ HandlerRaised)

\* C37 witness: the composite result has success true around a code agent's
\* result with success false
C37_Witness ==
    /\ o_pc = "done"
    /\ Get(o_task, "type") = "implement_story"
    /\ Has(o_return, "code_results")
    /\ o_return.success
    /\ \E i \in 1..Len(o_return.code_results) : ~o_return.code_results[i].success

\* C37 second witness: success true around a requirements result with success false
C37_WitnessRequirements ==
    /\ o_pc = "done"
    /\ Get(o_task, "type") = "implement_story"
    /\ Has(o_return, "requirements")
    /\ o_return.success
    /\ ~o_return.requirements.success

\* C38: an agent whose repository is a configured local checkout never pulls
\* from origin into it, in initialize_repo or in a task (branch creation
\* included).
C38_LocalCheckoutNeverPulled ==
    cr_repo = LocalCheckout => CalledAt("origin.pull") = 0

\* a process_task call is in progress
OrchInCall == o_pc \notin {"idle", "done"}

\* process_task returned a mapping that says whether the task succeeded
TerminalResult ==
    /\ o_pc = "done"
    /\ Has(o_return, "success")
    /\ o_return.success \in BOOLEAN

\* the bounded store and clock of the model leave this agent no further write:
\* the table is full, or the current timestamp is used up and the clock is at
\* its last value
HorizonReached ==
    ~CanStamp /\ (~CanStore \/ \A d \in ClockSteps : now + d > MaxClock)

\* how far a call has come: receiving, analysis, delegation (one turn of the
\* loop per repository), aggregation and failure handling, return
OrchProgress ==
    CASE o_pc = "idle" -> 0
      [] o_pc = "observe" -> 10
      [] o_pc = "decide" -> 20
      [] o_pc = "route" -> 30
      [] o_pc \in {"analysis", "split", "await_release"} -> 40
      [] o_pc = "record" -> 50
      [] o_pc = "await_requirements" -> 60
      [] o_pc = "delegate" -> 70 + 2 * Len(o_code_results)
      [] o_pc = "await_code" -> 71 + 2 * Len(o_code_results)
      [] o_pc = "except" -> 80
      [] OTHER -> 90

\* C39: every process_task call ends with a mapping holding success true or
\* false once the calls it awaits end (followed here up to the last row and
\* clock value the bounds allow); it moves forward only, through receiving,
\* analysis, delegation and aggregation, and delegates at most once to the
\* requirements agent and once per repository of the analysis.
C39_CallEndsWithResult ==
    /\ (OrchInCall ~> (TerminalResult \/ HorizonReached))
    /\ [](/\ Len(SelectSeq(DelegatedCalls, LAMBDA c : c.agent = "requirements")) <= 1
          /\ Len(DelegatedCalls) <= Len(AnalysisRepos) + 1)
    /\ [][(OrchInCall /\ o_pc' # o_pc) => OrchProgress' > OrchProgress]_vars

====
